---- MODULE Spec2Model ----
(***************************************************************************)
(* Command Snippet Manager: the record store, the auto-snapshot bracket    *)
(* around add / update / delete, snapshot retention and restore, and the   *)
(* manual backup / restore of the database file.                           *)
(*                                                                         *)
(* Files are modelled by their content: the live database file is the      *)
(* image [rows, seq] (the snippets table and the AUTOINCREMENT counter     *)
(* that sqlite keeps inside the same file); a copy of it is the same       *)
(* image.  Time is the value datetime.now() returns; Tick advances it, and *)
(* two calls made without a Tick in between read the same value.           *)
(***************************************************************************)
EXTENDS Integers, Sequences, FiniteSets, TLC

\* ------------------------------------------------------------------ bounds
MaxClock == 1
MaxSeq == 2
TicksPerSecond == 2
MaxKeep == 1
MaxFaults == 2
MaxCalls == 3
MaxBackupCalls == 4
MaxDirs == 7
MaxMigRows == 2
MaxMigrationCalls == 2
MaxImportSeq == 4
MaxDocLen == 2
MaxImportCalls == 3
MaxSearchRows == 2
MaxTermLen == 2
MaxTags == 2
MaxSearchCalls == 2
MaxBackupFiles == 3
MaxMtime == 1
MaxCleanupCalls == 2
MaxStamps == 6
MaxRetentionCalls == 2

\* --------------------------------------------------------------- constants
KEEP_COUNT == 5

\* ------------------------------------------------------------------ values
NoFile == [absent |-> TRUE]
NoDir == [nodir |-> TRUE]
NoId == -1
Null == -1

\* Text is a sequence of characters, so that strip() has something to do.
RawNames == {<<" ">>, <<" ", "a">>}
RawCommands == {<<>>, <<"x", " ">>, <<"y">>}
RawDescriptions == {<<" ">>}
RawTags == {<<"t", " ">>}
Operations == {"add", "update", "delete"}

IsSpace(c) == c = " "

RECURSIVE LStrip(_)
LStrip(s) == IF s = <<>> THEN s
             ELSE IF IsSpace(Head(s)) THEN LStrip(Tail(s)) ELSE s

RECURSIVE RStrip(_)
RStrip(s) == IF s = <<>> THEN s
             ELSE IF IsSpace(s[Len(s)]) THEN RStrip(SubSeq(s, 1, Len(s) - 1)) ELSE s

\* only the trailing whitespace is removed
strip_trailing_only(s) == RStrip(s)

\* only the leading whitespace is removed
strip_leading_only(s) == LStrip(s)

strip(s) == RStrip(LStrip(s))

\* Python None / JSON null / SQL NULL in a text field
NoneText == <<"None">>

\* a text json.loads() rejects
BadJson == [badjson |-> TRUE]

\* the statistics dictionary of an import that has not counted anything
NoStats == [total |-> 0, imported |-> 0, skipped |-> 0, failed |-> 0]

\* --------------------------------------------------------------- the state
VARIABLES
    clock,        \* what datetime.now() returns
    db,           \* the live database file: [rows, seq]
    snaps,        \* backups/auto/<id>/ : NoDir or [before, after, meta]
    safety,       \* backups/manual/safety_before_restore_<ts>_backup.db
    backups,      \* <backup_dir>/<stem>_backup_<ts>.db
    pre_restore,  \* <db_path>.pre_restore_<ts>
    pc,           \* position of the running add / update / delete call
    call,         \* the running or the last call: arguments, locals, result
    events,       \* the steps the running or last bracket has executed
    faults,       \* how many I/O or storage errors the environment has raised
    ncalls,       \* how many calls the user has made
    origin        \* history: the snapshots that brackets took, the content backed up

vars == <<clock, db, snaps, safety, backups, pre_restore, pc, call, events,
          faults, ncalls, origin>>

Times == 0..MaxClock
SnapIds == Times
Seconds == 0..(MaxClock \div TicksPerSecond)
RowIds == 1..MaxSeq

\* strftime('%Y%m%d_%H%M%S_%f'): microsecond resolution, nothing is lost
MicroStamp(now) == now
\* strftime('%Y%m%d_%H%M%S'): whole seconds
SecondStamp(now) == now \div TicksPerSecond

\* ------------------------------------------------------------ Record Store
Snippet(name, command_text, description, tags, last_used, created_at) ==
    [name |-> name, description |-> description, command_text |-> command_text,
     tags |-> tags, last_used |-> last_used, created_at |-> created_at]

EmptyDb == [rows |-> <<>>, seq |-> 0]

\* every id is taken to have a row
has_snippet_always(d, snippet_id) == TRUE

\* get_snippet_by_id returns None for an id that has no row
has_snippet(d, snippet_id) == snippet_id \in DOMAIN d.rows

get_snippet_by_id(d, snippet_id) == d.rows[snippet_id]

\* no name is ever found
name_exists_never(d, name) == FALSE

name_exists(d, name) == \E i \in DOMAIN d.rows : d.rows[i].name = name

insert_snippet(d, snippet) ==
    LET id == d.seq + 1
    IN [db |-> [rows |-> [i \in (DOMAIN d.rows) \cup {id} |->
                            IF i = id THEN snippet ELSE d.rows[i]],
                seq |-> id],
        ret |-> id]

\* the update that also writes the timestamps of the Snippet it is given
update_snippet_writes_timestamps(d, snippet_id, snippet) ==
    [db |-> [d EXCEPT !.rows =
                [i \in DOMAIN d.rows |-> IF i = snippet_id THEN snippet ELSE d.rows[i]]],
     ret |-> 1]

update_snippet(d, snippet_id, snippet) ==
    [db |-> [d EXCEPT !.rows =
                [i \in DOMAIN d.rows |->
                    IF i = snippet_id
                    THEN [d.rows[i] EXCEPT !.name = snippet.name,
                                           !.description = snippet.description,
                                           !.command_text = snippet.command_text,
                                           !.tags = snippet.tags]
                    ELSE d.rows[i]]],
     ret |-> 1]

\* database.py update_last_used: UPDATE snippets SET last_used = now WHERE id = ?
update_last_used(d, snippet_id, now) ==
    [db |-> [d EXCEPT !.rows =
                [i \in DOMAIN d.rows |->
                    IF i = snippet_id THEN [d.rows[i] EXCEPT !.last_used = now]
                    ELSE d.rows[i]]],
     ret |-> 1]

\* the result tells whether a row was deleted
delete_snippet_reports_rowcount(d, snippet_id) ==
    [db |-> [d EXCEPT !.rows = [i \in (DOMAIN d.rows) \ {snippet_id} |-> d.rows[i]]],
     ret |-> IF snippet_id \in DOMAIN d.rows THEN 1 ELSE 0]

delete_snippet(d, snippet_id) ==
    [db |-> [d EXCEPT !.rows = [i \in (DOMAIN d.rows) \ {snippet_id} |-> d.rows[i]]],
     ret |-> 1]

\* -------------------------------------------------------- Snapshot Manager
EmptyDir == [before |-> NoFile, after |-> NoFile, meta |-> NoFile]

BeforeFailures == {"none", "makedirs", "copy", "metadata"}
AfterFailures == {"none", "copy", "metadata"}
RestoreFailures == {"none", "safety", "restore"}

\* sorted(os.listdir(auto_snapshot_parent), reverse=True)
RECURSIVE SortedReverse(_)
SortedReverse(ids) ==
    IF ids = {} THEN <<>>
    ELSE LET m == CHOOSE x \in ids : \A y \in ids : y <= x
         IN <<m>> \o SortedReverse(ids \ {m})

\* a Python slice seq[k:]
SliceFrom(seq, k) == SubSeq(seq, k + 1, Len(seq))
Range(seq) == {seq[i] : i \in DOMAIN seq}

listdir(S) == {i \in DOMAIN S : S[i] # NoDir}

\* backup.py create_snapshot_before: the directory is named by the time
\* stamp and made with exist_ok=True, then before.db, then metadata.json.
\* Any exception is logged and {} is returned (id = NoId).
create_snapshot_before(S, live, now, operation, snippet_name, fail) ==
    LET timestamp == MicroStamp(now)
        dir0 == IF S[timestamp] = NoDir THEN EmptyDir ELSE S[timestamp]
        dir1 == [dir0 EXCEPT !.before = live]
        metadata == [snapshot_id |-> timestamp, operation |-> operation,
                     snippet_name |-> snippet_name, before_timestamp |-> now,
                     after_timestamp |-> Null, status |-> "in-progress"]
        dir2 == [dir1 EXCEPT !.meta = metadata]
    IN IF fail = "makedirs" THEN [snaps |-> S, id |-> NoId]
       ELSE IF fail = "copy" THEN [snaps |-> [S EXCEPT ![timestamp] = dir0], id |-> NoId]
       ELSE IF fail = "metadata" THEN [snaps |-> [S EXCEPT ![timestamp] = dir1], id |-> NoId]
       ELSE [snaps |-> [S EXCEPT ![timestamp] = dir2], id |-> timestamp]

\* metadata.json is set to completed before after.db is copied
create_snapshot_after_metadata_first(S, live, now, snapshot_id, fail) ==
    IF snapshot_id \notin DOMAIN S \/ S[snapshot_id] = NoDir
    THEN [snaps |-> S, ok |-> FALSE]
    ELSE IF fail = "metadata" \/ S[snapshot_id].meta = NoFile
    THEN [snaps |-> S, ok |-> FALSE]
    ELSE LET dir1 == [S[snapshot_id] EXCEPT !.meta.after_timestamp = now,
                                            !.meta.status = "completed"]
         IN IF fail = "copy"
            THEN [snaps |-> [S EXCEPT ![snapshot_id] = dir1], ok |-> FALSE]
            ELSE [snaps |-> [S EXCEPT ![snapshot_id] = [dir1 EXCEPT !.after = live]],
                  ok |-> TRUE]

\* after.db is written but metadata.json keeps status in-progress
create_snapshot_after_keeps_status(S, live, now, snapshot_id, fail) ==
    IF snapshot_id \notin DOMAIN S \/ S[snapshot_id] = NoDir
    THEN [snaps |-> S, ok |-> FALSE]
    ELSE [snaps |-> [S EXCEPT ![snapshot_id].after = live], ok |-> TRUE]

\* backup.py create_snapshot_after: {} when the directory is missing, when a
\* copy fails, or when metadata.json cannot be read or written.
create_snapshot_after(S, live, now, snapshot_id, fail) ==
    IF snapshot_id \notin DOMAIN S \/ S[snapshot_id] = NoDir
    THEN [snaps |-> S, ok |-> FALSE]
    ELSE IF fail = "copy" THEN [snaps |-> S, ok |-> FALSE]
    ELSE LET dir1 == [S[snapshot_id] EXCEPT !.after = live]
         IN IF fail = "metadata" \/ dir1.meta = NoFile
            THEN [snaps |-> [S EXCEPT ![snapshot_id] = dir1], ok |-> FALSE]
            ELSE [snaps |-> [S EXCEPT ![snapshot_id] =
                                [dir1 EXCEPT !.meta.after_timestamp = now,
                                             !.meta.status = "completed"]],
                  ok |-> TRUE]

\* the listing sorted oldest first: the newest directories are removed
cleanup_old_snapshots_oldest_first(S, keep_count, listdir_raises, failing) ==
    LET kept == Range(SliceFrom(SortedReverse(listdir(S)),
                                Cardinality(listdir(S)) - keep_count))
        doomed == IF keep_count >= Cardinality(listdir(S)) THEN {}
                  ELSE listdir(S) \ kept
    IN [snaps |-> [i \in DOMAIN S |-> IF i \in doomed THEN NoDir ELSE S[i]],
        deleted_count |-> Cardinality(doomed)]

\* backup.py cleanup_old_snapshots: rmtree of every directory beyond the
\* first keep_count of the reverse-sorted listing; `failing` are the
\* directories whose rmtree raises (logged, the loop goes on); when
\* os.listdir raises, the outer handler returns 0.
cleanup_old_snapshots(S, keep_count, listdir_raises, failing) ==
    LET snapshot_dirs == SortedReverse(listdir(S))
        doomed == Range(SliceFrom(snapshot_dirs, keep_count)) \ failing
    IN IF listdir_raises THEN [snaps |-> S, deleted_count |-> 0]
       ELSE [snaps |-> [i \in DOMAIN S |-> IF i \in doomed THEN NoDir ELSE S[i]],
             deleted_count |-> Cardinality(doomed)]

\* the live file is overwritten first, the safety copy is taken of the result
restore_from_snapshot_overwrite_first(S, live, saf, now, snapshot_id, use_before, fail) ==
    IF snapshot_id \notin DOMAIN S \/ S[snapshot_id] = NoDir
    THEN [db |-> live, safety |-> saf, ok |-> FALSE]
    ELSE LET snapshot_file == IF use_before THEN S[snapshot_id].before
                              ELSE S[snapshot_id].after
             saf1 == [saf EXCEPT ![MicroStamp(now)] = snapshot_file]
         IN IF snapshot_file = NoFile THEN [db |-> live, safety |-> saf, ok |-> FALSE]
            ELSE IF fail = "restore" THEN [db |-> live, safety |-> saf, ok |-> FALSE]
            ELSE IF fail = "safety" THEN [db |-> snapshot_file, safety |-> saf, ok |-> FALSE]
            ELSE [db |-> snapshot_file, safety |-> saf1, ok |-> TRUE]

\* the safety copy is taken before the snapshot file is looked for
restore_from_snapshot_safety_first(S, live, saf, now, snapshot_id, use_before, fail) ==
    LET saf1 == [saf EXCEPT ![MicroStamp(now)] = live]
    IN IF snapshot_id \notin DOMAIN S \/ S[snapshot_id] = NoDir
       THEN [db |-> live, safety |-> saf1, ok |-> FALSE]
       ELSE LET snapshot_file == IF use_before THEN S[snapshot_id].before
                                 ELSE S[snapshot_id].after
            IN IF snapshot_file = NoFile THEN [db |-> live, safety |-> saf1, ok |-> FALSE]
               ELSE IF fail # "none" THEN [db |-> live, safety |-> saf1, ok |-> FALSE]
               ELSE [db |-> snapshot_file, safety |-> saf1, ok |-> TRUE]

\* backup.py restore_from_snapshot: False when the directory or the chosen
\* file is missing; else the safety copy, then the overwrite of the live
\* file.  An exception in either copy is logged and False is returned.
restore_from_snapshot(S, live, saf, now, snapshot_id, use_before, fail) ==
    IF snapshot_id \notin DOMAIN S \/ S[snapshot_id] = NoDir
    THEN [db |-> live, safety |-> saf, ok |-> FALSE]
    ELSE LET snapshot_file == IF use_before THEN S[snapshot_id].before
                              ELSE S[snapshot_id].after
             timestamp == MicroStamp(now)
             saf1 == [saf EXCEPT ![timestamp] = live]
         IN IF snapshot_file = NoFile THEN [db |-> live, safety |-> saf, ok |-> FALSE]
            ELSE IF fail = "safety" THEN [db |-> live, safety |-> saf, ok |-> FALSE]
            ELSE IF fail = "restore" THEN [db |-> live, safety |-> saf1, ok |-> FALSE]
            ELSE [db |-> snapshot_file, safety |-> saf1, ok |-> TRUE]

\* the directories a cleanup with this keep_count would try to remove
BeyondKeep(S, keep_count) == Range(SliceFrom(SortedReverse(listdir(S)), keep_count))

\* ------------------------------------------------------ Orchestration Layer
NoSnippet == Snippet(<<>>, <<>>, <<>>, <<>>, 0, 0)

BlankCall ==
    [op |-> "none", status |-> "returned", ret |-> 0, pre |-> EmptyDb,
     snippet_id |-> 0, snippet |-> NoSnippet, snippet_name |-> <<>>,
     snapshot_id |-> NoId, use_before |-> TRUE, keep_count |-> 0,
     keep_backup |-> TRUE, failed |-> {}, listing |-> <<>>, now |-> 0,
     json_data |-> BadJson, replace_existing |-> FALSE, stats |-> NoStats,
     name |-> <<>>, command_text |-> <<>>, allow_duplicate_names |-> TRUE,
     query |-> <<>>, tags_list |-> <<>>, result |-> <<>>,
     description |-> <<>>, tags |-> <<>>]

\* the mutation run first, the BEFORE snapshot after it
BracketNextMutationFirst(step, snapshot_id, ok) ==
    CASE step = "begin" -> "mutate"
      [] step = "mutate" -> IF ~ok THEN "idle" ELSE "before"
      [] step = "before" -> IF snapshot_id # NoId THEN "after" ELSE "cleanup"
      [] step = "after" -> "cleanup"
      [] OTHER -> "idle"

\* a failed BEFORE snapshot ends the call with an error
BracketNextBeforeBlocks(step, snapshot_id, ok) ==
    CASE step = "begin" -> "before"
      [] step = "before" -> IF snapshot_id = NoId THEN "idle" ELSE "mutate"
      [] step = "mutate" -> IF ~ok THEN "idle"
                            ELSE IF snapshot_id # NoId THEN "after" ELSE "cleanup"
      [] step = "after" -> "cleanup"
      [] OTHER -> "idle"

\* snippet_manager.py, the try block of add_snippet / update_snippet /
\* delete_snippet: where control goes after the step `step`; `ok` is FALSE
\* when the step raised, snapshot_id is what the BEFORE step returned.
BracketNext(step, snapshot_id, ok) ==
    CASE step = "begin" -> "before"
      [] step = "before" -> "mutate"
      [] step = "mutate" -> IF ~ok THEN "idle"
                            ELSE IF snapshot_id # NoId THEN "after" ELSE "cleanup"
      [] step = "after" -> "cleanup"
      [] OTHER -> "idle"

\* the Record Store call of the bracket
Mutation(d, c) ==
    CASE c.op = "add_snippet" -> insert_snippet(d, c.snippet)
      [] c.op = "update_snippet" -> update_snippet(d, c.snippet_id, c.snippet)
      [] OTHER -> delete_snippet(d, c.snippet_id)

SnapshotOperation(op) ==
    CASE op = "add_snippet" -> "add"
      [] op = "update_snippet" -> "update"
      [] OTHER -> "delete"

\* the store of an earlier session: one record, made at time 0
StartDb == insert_snippet(EmptyDb, Snippet(<<"a">>, <<"x">>, <<>>, <<>>, 0, 0)).db

Init ==
    /\ clock = 0
    /\ db \in {EmptyDb, StartDb}
    /\ snaps = [i \in SnapIds |-> NoDir]
    /\ safety = [t \in Times |-> NoFile]
    /\ backups = [t \in Times |-> NoFile]
    /\ pre_restore = [t \in Seconds |-> NoFile]
    /\ pc = "idle"
    /\ call = BlankCall
    /\ events = <<>>
    /\ faults = 0
    /\ ncalls = 0
    /\ origin = [taken |-> {}, backup |-> [t \in Times |-> NoFile]]

\* an operation may hit an error only while the fault budget lasts
Fault(happens) ==
    /\ happens => faults < MaxFaults
    /\ faults' = IF happens THEN faults + 1 ELSE faults

\* the user makes one more call
Enter ==
    /\ pc = "idle"
    /\ ncalls < MaxCalls
    /\ ncalls' = ncalls + 1

Tick ==
    /\ clock < MaxClock
    /\ clock' = clock + 1
    /\ UNCHANGED <<db, snaps, safety, backups, pre_restore, pc, call, events,
                 faults, ncalls, origin>>

\* add_snippet up to the try block: validation, then Snippet(...)
AddBegin ==
    \E name \in RawNames, description \in RawDescriptions,
       command_text \in RawCommands, tags \in RawTags,
       allow_duplicate_names \in BOOLEAN :
        /\ Enter
        /\ db.seq < MaxSeq
        /\ LET valid == /\ strip(name) # <<>>
                        /\ strip(command_text) # <<>>
                        /\ (allow_duplicate_names \/ ~name_exists(db, strip(name)))
               c == [BlankCall EXCEPT
                        !.op = "add_snippet", !.pre = db, !.now = clock,
                        !.name = name, !.command_text = command_text,
                        !.description = description, !.tags = tags,
                        !.allow_duplicate_names = allow_duplicate_names,
                        !.snippet = Snippet(strip(name), strip(command_text),
                                            strip(description), strip(tags),
                                            clock, clock),
                        !.snippet_name = strip(name)]
           IN IF valid
              THEN /\ call' = [c EXCEPT !.status = "running"]
                   /\ pc' = BracketNext("begin", NoId, TRUE)
              ELSE /\ call' = [c EXCEPT !.status = "ValueError"]
                   /\ pc' = "idle"
        /\ events' = <<>>
        /\ UNCHANGED <<clock, db, snaps, safety, backups, pre_restore, faults, origin>>

\* update_snippet up to the try block
UpdateBegin ==
    \E snippet_id \in RowIds, name \in RawNames, description \in RawDescriptions,
       command_text \in RawCommands, tags \in RawTags :
        /\ Enter
        /\ LET valid == /\ strip(name) # <<>>
                        /\ strip(command_text) # <<>>
                        /\ has_snippet(db, snippet_id)
               existing == IF snippet_id \in DOMAIN db.rows
                           THEN get_snippet_by_id(db, snippet_id) ELSE NoSnippet
               c == [BlankCall EXCEPT
                        !.op = "update_snippet", !.pre = db, !.now = clock,
                        !.name = name, !.command_text = command_text,
                        !.description = description, !.tags = tags,
                        !.snippet_id = snippet_id,
                        !.snippet = Snippet(strip(name), strip(command_text),
                                            strip(description), strip(tags),
                                            existing.last_used, existing.created_at),
                        !.snippet_name = strip(name)]
           IN IF valid
              THEN /\ call' = [c EXCEPT !.status = "running"]
                   /\ pc' = BracketNext("begin", NoId, TRUE)
              ELSE /\ call' = [c EXCEPT !.status = "ValueError"]
                   /\ pc' = "idle"
        /\ events' = <<>>
        /\ UNCHANGED <<clock, db, snaps, safety, backups, pre_restore, faults, origin>>

\* delete_snippet up to the BEFORE snapshot: the name for the metadata
DeleteBegin ==
    \E snippet_id \in RowIds :
        /\ Enter
        /\ call' = [BlankCall EXCEPT
                        !.op = "delete_snippet", !.status = "running",
                        !.pre = db, !.now = clock, !.snippet_id = snippet_id,
                        !.snippet_name =
                            IF has_snippet(db, snippet_id)
                            THEN get_snippet_by_id(db, snippet_id).name
                            ELSE <<"snippet_", ToString(snippet_id)>>]
        /\ pc' = BracketNext("begin", NoId, TRUE)
        /\ events' = <<>>
        /\ UNCHANGED <<clock, db, snaps, safety, backups, pre_restore, faults, origin>>

\* self.create_snapshot_before(operation, name); snapshot_info.get('snapshot_id', '')
StepBefore ==
    \E fail \in BeforeFailures :
        /\ pc = "before"
        /\ Fault(fail # "none")
        /\ LET r == create_snapshot_before(snaps, db, clock,
                        SnapshotOperation(call.op), call.snippet_name, fail)
           IN /\ snaps' = r.snaps
              /\ call' = [call EXCEPT !.snapshot_id = r.id,
                            !.failed = IF r.id = NoId THEN @ \cup {"before"} ELSE @]
              /\ pc' = BracketNext("before", r.id, TRUE)
        /\ events' = Append(events, "before")
        /\ UNCHANGED <<clock, db, safety, backups, pre_restore, ncalls, origin>>

\* self.db.insert_snippet / update_snippet / delete_snippet: commit, or
\* rollback and raise, which the bracket re-raises as Exception
StepMutate ==
    \E raises \in BOOLEAN :
        /\ pc = "mutate"
        /\ Fault(raises)
        /\ LET r == Mutation(db, call)
           IN IF raises
              THEN /\ db' = db
                   /\ call' = [call EXCEPT !.status = "Exception",
                                           !.failed = @ \cup {"mutate"}]
              ELSE /\ db' = r.db
                   /\ call' = [call EXCEPT !.ret = r.ret]
        /\ pc' = BracketNext("mutate", call.snapshot_id, ~raises)
        /\ events' = Append(events, "mutate")
        /\ UNCHANGED <<clock, snaps, safety, backups, pre_restore, ncalls, origin>>

\* if snapshot_id: self.create_snapshot_after(snapshot_id)
StepAfter ==
    \E fail \in AfterFailures :
        /\ pc = "after"
        /\ Fault(fail # "none")
        /\ LET r == create_snapshot_after(snaps, db, clock, call.snapshot_id, fail)
           IN /\ snaps' = r.snaps
              /\ call' = [call EXCEPT
                            !.failed = IF r.ok THEN @ ELSE @ \cup {"after"}]
        /\ pc' = BracketNext("after", call.snapshot_id, TRUE)
        /\ origin' = IF create_snapshot_after(snaps, db, clock, call.snapshot_id, fail).ok
                      THEN [origin EXCEPT
                              !.taken = @ \cup {[snapshot_id |-> call.snapshot_id,
                                                 before |-> call.pre, after |-> db]}]
                      ELSE origin
        /\ events' = Append(events, "after")
        /\ UNCHANGED <<clock, db, safety, backups, pre_restore, ncalls>>

\* self.cleanup_old_snapshots(keep_count=5); return
StepCleanup ==
    \E listdir_raises \in BOOLEAN, failing \in SUBSET BeyondKeep(snaps, KEEP_COUNT) :
        /\ pc = "cleanup"
        /\ Fault(listdir_raises \/ failing # {})
        /\ LET r == cleanup_old_snapshots(snaps, KEEP_COUNT, listdir_raises, failing)
           IN /\ snaps' = r.snaps
              /\ call' = [call EXCEPT !.status = "returned",
                            !.failed = IF listdir_raises \/ failing # {}
                                       THEN @ \cup {"cleanup"} ELSE @]
        /\ pc' = BracketNext("cleanup", call.snapshot_id, TRUE)
        /\ events' = Append(events, "cleanup")
        /\ UNCHANGED <<clock, db, safety, backups, pre_restore, ncalls, origin>>

\* ---------------------------------- the snapshot calls the dialog makes
\* SnippetManager.cleanup_old_snapshots(keep_count)
CleanupOldSnapshots ==
    \E keep_count \in 0..MaxKeep, listdir_raises \in BOOLEAN :
      \E failing \in SUBSET BeyondKeep(snaps, keep_count) :
        /\ Enter
        /\ Fault(listdir_raises \/ failing # {})
        /\ LET r == cleanup_old_snapshots(snaps, keep_count, listdir_raises, failing)
           IN /\ snaps' = r.snaps
              /\ call' = [BlankCall EXCEPT
                            !.op = "cleanup_old_snapshots", !.pre = db,
                            !.now = clock, !.keep_count = keep_count,
                            !.ret = r.deleted_count,
                            !.failed = IF listdir_raises \/ failing # {}
                                       THEN {"cleanup"} ELSE {}]
        /\ events' = <<>>
        /\ UNCHANGED <<clock, db, safety, backups, pre_restore, pc, origin>>

\* SnippetManager.restore_from_snapshot(snapshot_id, use_before)
RestoreFromSnapshot ==
    \E snapshot_id \in SnapIds, use_before \in BOOLEAN, fail \in RestoreFailures :
        /\ Enter
        /\ Fault(fail # "none")
        /\ LET r == restore_from_snapshot(snaps, db, safety, clock,
                                          snapshot_id, use_before, fail)
           IN /\ db' = r.db
              /\ safety' = r.safety
              /\ call' = [BlankCall EXCEPT
                            !.op = "restore_from_snapshot", !.pre = db,
                            !.now = clock, !.snapshot_id = snapshot_id,
                            !.use_before = use_before,
                            !.ret = IF r.ok THEN 1 ELSE 0,
                            !.failed = IF fail = "none" THEN {} ELSE {fail}]
        /\ events' = <<>>
        /\ UNCHANGED <<clock, snaps, backups, pre_restore, pc, origin>>

Next ==
    \/ Tick
    \/ AddBegin
    \/ UpdateBegin
    \/ DeleteBegin
    \/ StepBefore
    \/ StepMutate
    \/ StepAfter
    \/ StepCleanup
    \/ CleanupOldSnapshots
    \/ RestoreFromSnapshot

Spec == Init /\ [][Next]_vars

\* ---------------------------------------------------------- Backup Manager
BackupFailures == {"none", "copy"}
RestoreDatabaseFailures == {"none", "safety", "restore", "remove"}

\* backup.py backup_database: FileNotFoundError when the source is missing,
\* else a copy named by the microsecond time stamp; every exception is
\* re-raised as Exception
backup_database(live, B, now, fail) ==
    LET timestamp == MicroStamp(now)
    IN IF live = NoFile \/ fail = "copy"
       THEN [backups |-> B, path |-> NoId, raised |-> TRUE]
       ELSE [backups |-> [B EXCEPT ![timestamp] = live], path |-> timestamp,
             raised |-> FALSE]

\* the safety copy is taken only when the backup is kept
restore_database_safety_if_kept(B, live, P, now, backup_path, keep_backup, fail) ==
    LET P1 == IF live # NoFile /\ keep_backup
              THEN [P EXCEPT ![SecondStamp(now)] = live] ELSE P
    IN IF backup_path \notin DOMAIN B \/ B[backup_path] = NoFile
       THEN [db |-> live, backups |-> B, pre_restore |-> P, raised |-> TRUE]
       ELSE IF fail # "none"
       THEN [db |-> live, backups |-> B, pre_restore |-> P, raised |-> TRUE]
       ELSE [db |-> B[backup_path],
             backups |-> IF keep_backup THEN B ELSE [B EXCEPT ![backup_path] = NoFile],
             pre_restore |-> P1, raised |-> FALSE]

\* the backup file is removed whatever keep_backup says
restore_database_drops_backup(B, live, P, now, backup_path, keep_backup, fail) ==
    LET P1 == IF live # NoFile THEN [P EXCEPT ![SecondStamp(now)] = live] ELSE P
    IN IF backup_path \notin DOMAIN B \/ B[backup_path] = NoFile
       THEN [db |-> live, backups |-> B, pre_restore |-> P, raised |-> TRUE]
       ELSE IF fail # "none"
       THEN [db |-> live, backups |-> B, pre_restore |-> P, raised |-> TRUE]
       ELSE [db |-> B[backup_path], backups |-> [B EXCEPT ![backup_path] = NoFile],
             pre_restore |-> P1, raised |-> FALSE]

\* the safety copy is taken before the backup file is looked for
restore_database_safety_before_check(B, live, P, now, backup_path, keep_backup, fail) ==
    LET P1 == IF live # NoFile THEN [P EXCEPT ![SecondStamp(now)] = live] ELSE P
    IN IF backup_path \notin DOMAIN B \/ B[backup_path] = NoFile
       THEN [db |-> live, backups |-> B, pre_restore |-> P1, raised |-> TRUE]
       ELSE IF fail # "none"
       THEN [db |-> live, backups |-> B, pre_restore |-> P1, raised |-> TRUE]
       ELSE [db |-> B[backup_path],
             backups |-> IF keep_backup THEN B ELSE [B EXCEPT ![backup_path] = NoFile],
             pre_restore |-> P1, raised |-> FALSE]

\* backup.py restore_database: FileNotFoundError when the backup is missing;
\* the safety copy when the live file exists; the overwrite; the removal of
\* the backup when keep_backup is false.  The first exception ends the call.
restore_database(B, live, P, now, backup_path, keep_backup, fail) ==
    LET safety_timestamp == SecondStamp(now)
        P1 == IF live # NoFile THEN [P EXCEPT ![safety_timestamp] = live] ELSE P
    IN IF backup_path \notin DOMAIN B \/ B[backup_path] = NoFile
       THEN [db |-> live, backups |-> B, pre_restore |-> P, raised |-> TRUE]
       ELSE IF live # NoFile /\ fail = "safety"
       THEN [db |-> live, backups |-> B, pre_restore |-> P, raised |-> TRUE]
       ELSE IF fail = "restore"
       THEN [db |-> live, backups |-> B, pre_restore |-> P1, raised |-> TRUE]
       ELSE IF ~keep_backup /\ fail = "remove"
       THEN [db |-> B[backup_path], backups |-> B, pre_restore |-> P1, raised |-> TRUE]
       ELSE [db |-> B[backup_path],
             backups |-> IF keep_backup THEN B ELSE [B EXCEPT ![backup_path] = NoFile],
             pre_restore |-> P1, raised |-> FALSE]

\* the database file may not exist yet when a backup is restored to its path
InitBackup ==
    /\ clock = 0
    /\ db \in {NoFile, EmptyDb}
    /\ snaps = [i \in SnapIds |-> NoDir]
    /\ safety = [t \in Times |-> NoFile]
    /\ backups = [t \in Times |-> NoFile]
    /\ pre_restore = [t \in Seconds |-> NoFile]
    /\ pc = "idle"
    /\ call = BlankCall
    /\ events = <<>>
    /\ faults = 0
    /\ ncalls = 0
    /\ origin = [taken |-> {}, backup |-> [t \in Times |-> NoFile]]

EnterBackup ==
    /\ ncalls < MaxBackupCalls
    /\ ncalls' = ncalls + 1

\* Database.connect() and create_tables() on a path that has no file yet
DbCreate ==
    /\ db = NoFile
    /\ EnterBackup
    /\ db' = EmptyDb
    /\ call' = [BlankCall EXCEPT !.op = "create_tables", !.pre = db, !.now = clock]
    /\ UNCHANGED <<clock, snaps, safety, backups, pre_restore, pc, events, faults, origin>>

\* Database.insert_snippet(Snippet(name, command_text))
DbInsert ==
    \E command_text \in {<<"x">>, <<"y">>} :
        /\ db # NoFile
        /\ db.seq < MaxSeq
        /\ EnterBackup
        /\ LET r == insert_snippet(db, Snippet(<<"a">>, command_text, <<>>, <<>>,
                                               clock, clock))
           IN /\ db' = r.db
              /\ call' = [BlankCall EXCEPT !.op = "insert_snippet", !.pre = db,
                                           !.now = clock, !.ret = r.ret]
        /\ UNCHANGED <<clock, snaps, safety, backups, pre_restore, pc, events,
                       faults, origin>>

\* Database.update_snippet(Snippet(snippet_id, name, command_text))
DbUpdate ==
    \E snippet_id \in RowIds, command_text \in {<<"x">>, <<"y">>} :
        /\ db # NoFile
        /\ EnterBackup
        /\ LET r == update_snippet(db, snippet_id,
                                   Snippet(<<"a">>, command_text, <<>>, <<>>, clock, clock))
           IN /\ db' = r.db
              /\ call' = [BlankCall EXCEPT !.op = "update_snippet", !.pre = db,
                                           !.now = clock, !.ret = r.ret,
                                           !.snippet_id = snippet_id]
        /\ UNCHANGED <<clock, snaps, safety, backups, pre_restore, pc, events,
                       faults, origin>>

\* SnippetManager.record_usage(snippet_id): Database.update_last_used
DbUpdateLastUsed ==
    \E snippet_id \in RowIds :
        /\ db # NoFile
        /\ EnterBackup
        /\ LET r == update_last_used(db, snippet_id, clock)
           IN /\ db' = r.db
              /\ call' = [BlankCall EXCEPT !.op = "record_usage", !.pre = db,
                                           !.now = clock, !.ret = r.ret,
                                           !.snippet_id = snippet_id]
        /\ UNCHANGED <<clock, snaps, safety, backups, pre_restore, pc, events,
                       faults, origin>>

\* Database.delete_snippet(snippet_id)
DbDelete ==
    \E snippet_id \in RowIds :
        /\ db # NoFile
        /\ EnterBackup
        /\ LET r == delete_snippet(db, snippet_id)
           IN /\ db' = r.db
              /\ call' = [BlankCall EXCEPT !.op = "delete_snippet", !.pre = db,
                                           !.now = clock, !.ret = r.ret,
                                           !.snippet_id = snippet_id]
        /\ UNCHANGED <<clock, snaps, safety, backups, pre_restore, pc, events,
                       faults, origin>>

\* backup_database(db_path, backup_dir)
BackupDatabase ==
    \E fail \in BackupFailures :
        /\ EnterBackup
        /\ Fault(fail # "none")
        /\ LET r == backup_database(db, backups, clock, fail)
           IN /\ backups' = r.backups
              /\ call' = [BlankCall EXCEPT
                            !.op = "backup_database", !.pre = db, !.now = clock,
                            !.status = IF r.raised THEN "Exception" ELSE "returned",
                            !.ret = r.path,
                            !.failed = IF fail = "none" THEN {} ELSE {fail}]
              /\ origin' = IF r.raised THEN origin
                           ELSE [origin EXCEPT !.backup[MicroStamp(clock)] = db]
        /\ UNCHANGED <<clock, db, snaps, safety, pre_restore, pc, events>>

\* restore_database(backup_path, db_path, keep_backup)
RestoreDatabase ==
    \E backup_path \in Times, keep_backup \in BOOLEAN, fail \in RestoreDatabaseFailures :
        /\ EnterBackup
        /\ Fault(fail # "none")
        /\ LET r == restore_database(backups, db, pre_restore, clock,
                                     backup_path, keep_backup, fail)
           IN /\ db' = r.db
              /\ backups' = r.backups
              /\ pre_restore' = r.pre_restore
              /\ call' = [BlankCall EXCEPT
                            !.op = "restore_database", !.pre = db, !.now = clock,
                            !.snapshot_id = backup_path, !.keep_backup = keep_backup,
                            !.status = IF r.raised THEN "Exception" ELSE "returned",
                            !.ret = IF r.raised THEN 0 ELSE 1,
                            !.failed = IF fail = "none" THEN {} ELSE {fail}]
        /\ UNCHANGED <<clock, snaps, safety, pc, events, origin>>

NextBackup ==
    \/ Tick
    \/ DbCreate
    \/ DbInsert
    \/ DbUpdate
    \/ DbUpdateLastUsed
    \/ DbDelete
    \/ BackupDatabase
    \/ RestoreDatabase

SpecBackup == InitBackup /\ [][NextBackup]_vars

\* ------------------------------------------------ snapshot retention alone
DirIds == 1..MaxDirs

\* the directory that create_snapshot_before and create_snapshot_after leave
\* at time i (test_cleanup_old_snapshots makes seven of them)
SnapshotDirAt(i) ==
    LET S0 == [j \in DirIds |-> NoDir]
        b == create_snapshot_before(S0, EmptyDb, i, "add", <<"a">>, "none")
        a == create_snapshot_after(b.snaps, EmptyDb, i, b.id, "none")
    IN a.snaps[i]

InitCleanup ==
    /\ clock = MaxDirs
    /\ db = EmptyDb
    /\ snaps \in {[i \in DirIds |-> IF i \in present THEN SnapshotDirAt(i) ELSE NoDir] :
                    present \in SUBSET DirIds}
    /\ safety = [t \in Times |-> NoFile]
    /\ backups = [t \in Times |-> NoFile]
    /\ pre_restore = [t \in Seconds |-> NoFile]
    /\ pc = "idle"
    /\ call = BlankCall
    /\ events = <<>>
    /\ faults = 0
    /\ ncalls = 0
    /\ origin = [taken |-> {}, backup |-> [t \in Times |-> NoFile]]

\* cleanup_old_snapshots(db_path, keep_count) on a working file system
CleanupCall ==
    \E keep_count \in 0..(MaxDirs + 1) :
        /\ LET r == cleanup_old_snapshots(snaps, keep_count, FALSE, {})
           IN /\ snaps' = r.snaps
              /\ call' = [BlankCall EXCEPT
                            !.op = "cleanup_old_snapshots", !.pre = db,
                            !.now = clock, !.keep_count = keep_count,
                            !.ret = r.deleted_count,
                            !.listing = SortedReverse(listdir(snaps))]
        /\ UNCHANGED <<clock, db, safety, backups, pre_restore, pc, events,
                       faults, ncalls, origin>>

NextCleanup == CleanupCall

SpecCleanup == InitCleanup /\ [][NextCleanup]_vars

\* ------------------------------------- brackets on a populated snapshot root
StampIds == 1..MaxStamps

\* the snapshot root as earlier sessions left it: completed snapshots under
\* some of the time-stamp names, none later than the present clock reading
InitRetention ==
    /\ clock = MaxStamps
    /\ db = EmptyDb
    /\ snaps \in {[i \in StampIds |-> IF i \in present THEN SnapshotDirAt(i) ELSE NoDir] :
                    present \in SUBSET StampIds}
    /\ safety = [t \in Times |-> NoFile]
    /\ backups = [t \in Times |-> NoFile]
    /\ pre_restore = [t \in Seconds |-> NoFile]
    /\ pc = "idle"
    /\ call = BlankCall
    /\ events = <<>>
    /\ faults = 0
    /\ ncalls = 0
    /\ origin = [taken |-> {}, backup |-> [t \in Times |-> NoFile]]

\* snippet_manager.py, the try block of add_snippet / update_snippet /
\* delete_snippet run to its return on a working file system.  `now` is what
\* datetime.now() gives create_snapshot_before: the naive local wall time,
\* which from one call to the next may stand still, advance, or fall back
\* (end of daylight saving time, a clock correction, a change of time
\* zone).  create_snapshot_after, milliseconds later, reads the same value.
Bracket(c, now) ==
    LET b == create_snapshot_before(snaps, db, now, SnapshotOperation(c.op),
                                    c.snippet_name, "none")
        m == Mutation(db, c)
        a == IF b.id # NoId
             THEN create_snapshot_after(b.snaps, m.db, now, b.id, "none")
             ELSE [snaps |-> b.snaps, ok |-> FALSE]
        r == cleanup_old_snapshots(a.snaps, KEEP_COUNT, FALSE, {})
    IN /\ db' = m.db
       /\ snaps' = r.snaps
       /\ call' = [c EXCEPT !.status = "returned", !.ret = m.ret,
                            !.snapshot_id = b.id, !.now = now]
       /\ clock' = now
       /\ events' = <<"before", "mutate", "after", "cleanup">>

\* the call ends in the validation, before the try block
Rejected(c) ==
    /\ call' = [c EXCEPT !.status = "ValueError"]
    /\ events' = <<>>
    /\ UNCHANGED <<clock, db, snaps>>

EnterRetention ==
    /\ ncalls < MaxRetentionCalls
    /\ ncalls' = ncalls + 1
    /\ UNCHANGED <<safety, backups, pre_restore, pc, faults, origin>>

\* SnippetManager.add_snippet
AddSnippet ==
    \E name \in RawNames, description \in RawDescriptions,
       command_text \in RawCommands, tags \in RawTags,
       allow_duplicate_names \in BOOLEAN, now \in StampIds :
        /\ EnterRetention
        /\ db.seq < MaxSeq
        /\ LET valid == /\ strip(name) # <<>>
                        /\ strip(command_text) # <<>>
                        /\ (allow_duplicate_names \/ ~name_exists(db, strip(name)))
               c == [BlankCall EXCEPT
                        !.op = "add_snippet", !.pre = db,
                        !.name = name, !.command_text = command_text,
                        !.description = description, !.tags = tags,
                        !.allow_duplicate_names = allow_duplicate_names,
                        !.snippet = Snippet(strip(name), strip(command_text),
                                            strip(description), strip(tags),
                                            clock, clock),
                        !.snippet_name = strip(name)]
           IN IF valid THEN Bracket(c, now) ELSE Rejected(c)

\* SnippetManager.update_snippet
UpdateSnippet ==
    \E snippet_id \in RowIds, name \in RawNames, description \in RawDescriptions,
       command_text \in RawCommands, tags \in RawTags,
       now \in StampIds :
        /\ EnterRetention
        /\ LET valid == /\ strip(name) # <<>>
                        /\ strip(command_text) # <<>>
                        /\ has_snippet(db, snippet_id)
               existing == IF snippet_id \in DOMAIN db.rows
                           THEN get_snippet_by_id(db, snippet_id) ELSE NoSnippet
               c == [BlankCall EXCEPT
                        !.op = "update_snippet", !.pre = db,
                        !.name = name, !.command_text = command_text,
                        !.description = description, !.tags = tags,
                        !.snippet_id = snippet_id,
                        !.snippet = Snippet(strip(name), strip(command_text),
                                            strip(description), strip(tags),
                                            existing.last_used, existing.created_at),
                        !.snippet_name = strip(name)]
           IN IF valid THEN Bracket(c, now) ELSE Rejected(c)

\* SnippetManager.delete_snippet
DeleteSnippet ==
    \E snippet_id \in RowIds, now \in StampIds :
        /\ EnterRetention
        /\ Bracket([BlankCall EXCEPT
                        !.op = "delete_snippet", !.pre = db,
                        !.snippet_id = snippet_id,
                        !.snippet_name =
                            IF has_snippet(db, snippet_id)
                            THEN get_snippet_by_id(db, snippet_id).name
                            ELSE <<"snippet_", ToString(snippet_id)>>],
                   now)

NextRetention ==
    \/ AddSnippet
    \/ UpdateSnippet
    \/ DeleteSnippet

SpecRetention == InitRetention /\ [][NextRetention]_vars

\* --------------------------------------------------------- Schema Migrator
\* In this part the database file also shows its schema: whether the
\* snippets table carries UNIQUE on name, the schema_version log, the
\* snippets_backup_<ts> tables and the snippets_new table.  What is written
\* outside a transaction, or committed, stays after a rollback.
NoTable == [notable |-> TRUE]

MigrationFailures == {"none", "backup", "create", "copy", "drop", "rename", "record"}

MigRowIds == 1..MaxMigRows

RemovedUnique == "Remove UNIQUE constraint from name column"
AlreadyThere == "Schema already at version 1"

\* the file a connect() and the first CREATE TABLE IF NOT EXISTS leave
NewSchemaDb ==
    [unique |-> FALSE, rows |-> <<>>, seq |-> 0, log |-> {},
     table_backups |-> [t \in Seconds |-> NoTable], snippets_new |-> NoTable]

\* the value AUTOINCREMENT restarts from in a table filled by INSERT ... SELECT
MaxId(rows) ==
    IF DOMAIN rows = {} THEN 0
    ELSE CHOOSE m \in DOMAIN rows : \A i \in DOMAIN rows : i <= m

\* the version is read as 0 whatever the log holds
get_current_version_zero(d) == 0

\* migrations.py get_current_version: MAX(version), 0 for an empty log
get_current_version(d) ==
    IF d.log = {} THEN 0
    ELSE CHOOSE v \in {r.version : r \in d.log} : \A r \in d.log : r.version <= v

\* the rows are copied without their ids, the new table numbers them afresh
migrate_to_version_1_renumbers(d, now, fail) ==
    IF d.unique
    THEN [db |-> [d EXCEPT
                    !.table_backups[SecondStamp(now)] = [rows |-> d.rows],
                    !.unique = FALSE,
                    !.rows = [i \in 1..Cardinality(DOMAIN d.rows) |->
                                d.rows[CHOOSE j \in DOMAIN d.rows :
                                    Cardinality({k \in DOMAIN d.rows : k <= j}) = i]],
                    !.seq = Cardinality(DOMAIN d.rows),
                    !.log = @ \cup {[version |-> 1, description |-> RemovedUnique]}],
          raised |-> FALSE]
    ELSE [db |-> [d EXCEPT !.log = @ \cup {[version |-> 1, description |-> AlreadyThere]}],
          raised |-> FALSE]

\* migrations.py migrate_to_version_1.  With UNIQUE in the schema:
\* _backup_table (CREATE TABLE ... AS SELECT, then commit), CREATE TABLE
\* snippets_new (no transaction is open, so it is durable at once), then in
\* one transaction the copy of the rows, DROP, RENAME and the version row,
\* then commit.  Any exception: rollback of the open transaction and raise.
\* Without UNIQUE: the version row, if the version is below 1.
migrate_to_version_1(d, now, fail) ==
    IF d.unique
    THEN LET backup_name == SecondStamp(now)
             d1 == [d EXCEPT !.table_backups[backup_name] = [rows |-> d.rows]]
             d2 == [d1 EXCEPT !.snippets_new = [rows |-> <<>>]]
             d3 == [d2 EXCEPT !.unique = FALSE,
                              !.seq = MaxId(d.rows),
                              !.snippets_new = NoTable,
                              !.log = @ \cup {[version |-> 1,
                                               description |-> RemovedUnique]}]
         IN IF fail = "backup" \/ d.table_backups[backup_name] # NoTable
            THEN [db |-> d, raised |-> TRUE]
            ELSE IF fail = "create" \/ d.snippets_new # NoTable
            THEN [db |-> d1, raised |-> TRUE]
            ELSE IF fail \in {"copy", "drop", "rename", "record"}
            THEN [db |-> d2, raised |-> TRUE]
            ELSE [db |-> d3, raised |-> FALSE]
    ELSE IF get_current_version(d) >= 1 THEN [db |-> d, raised |-> FALSE]
         ELSE IF fail = "record" THEN [db |-> d, raised |-> TRUE]
         ELSE [db |-> [d EXCEPT !.log = @ \cup {[version |-> 1,
                                                  description |-> AlreadyThere]}],
               raised |-> FALSE]

\* migrations.py ensure_latest_version
ensure_latest_version(d, now, fail) ==
    IF get_current_version(d) < 1 THEN migrate_to_version_1(d, now, fail)
    ELSE [db |-> d, raised |-> FALSE]

\* database.py create_tables: CREATE TABLE IF NOT EXISTS snippets, commit,
\* then the migrations; every exception is re-raised as Exception
create_tables(d, now, fail) ==
    ensure_latest_version(IF d = NoFile THEN NewSchemaDb ELSE d, now, fail)

\* the snippets tables a database of an earlier release may hold
MigRowTables ==
    UNION {[ids -> {Snippet(<<"a">>, <<"x">>, <<>>, <<>>, 0, 0),
                    Snippet(<<"b">>, <<"y">>, <<>>, <<>>, 0, 0)}] :
             ids \in SUBSET MigRowIds}

\* a database written by a release that declared name UNIQUE (no version
\* log yet), one written by this release, or no file at all
InitMigration ==
    /\ clock = 0
    /\ db \in {NoFile} \cup
              UNION {{[NewSchemaDb EXCEPT !.unique = u, !.rows = rows, !.seq = seq] :
                         u \in BOOLEAN, seq \in {MaxId(rows), MaxMigRows}} :
                     rows \in MigRowTables}
              \cup {[NewSchemaDb EXCEPT !.rows = rows, !.seq = MaxMigRows,
                                        !.log = {[version |-> 1, description |-> AlreadyThere]}] :
                       rows \in MigRowTables}
    /\ snaps = [i \in SnapIds |-> NoDir]
    /\ safety = [t \in Times |-> NoFile]
    /\ backups = [t \in Times |-> NoFile]
    /\ pre_restore = [t \in Seconds |-> NoFile]
    /\ pc = "idle"
    /\ call = BlankCall
    /\ events = <<>>
    /\ faults = 0
    /\ ncalls = 0
    /\ origin = [taken |-> {}, backup |-> [t \in Times |-> NoFile]]

\* Database.connect() and Database.create_tables() at start-up
CreateTables ==
    \E fail \in MigrationFailures :
        /\ ncalls < MaxMigrationCalls
        /\ ncalls' = ncalls + 1
        /\ Fault(fail # "none")
        /\ LET r == create_tables(db, clock, fail)
           IN /\ db' = r.db
              /\ call' = [BlankCall EXCEPT
                            !.op = "create_tables", !.pre = db, !.now = clock,
                            !.status = IF r.raised THEN "Exception" ELSE "returned",
                            !.failed = IF fail = "none" THEN {} ELSE {fail}]
        /\ UNCHANGED <<clock, snaps, safety, backups, pre_restore, pc, events, origin>>

NextMigration ==
    \/ Tick
    \/ CreateTables

SpecMigration == InitMigration /\ [][NextMigration]_vars

\* ------------------------------------------------------ JSON export / import
SnippetKeys == {"name", "description", "command_text", "tags", "last_used", "created_at"}

\* an entry of the snippets list that is not a JSON object (a string, a number, null)
NotAnObject == [notobject |-> TRUE]

IsObject(snippet_data) == "notobject" \notin DOMAIN snippet_data

\* the dictionary export builds for one row
SnippetDict(id, row) ==
    [id |-> id, name |-> row.name, description |-> row.description,
     command_text |-> row.command_text, tags |-> row.tags,
     last_used |-> row.last_used, created_at |-> row.created_at]

\* the orders ORDER BY created_at can return the rows in: NULL first, then
\* ascending, rows with equal created_at in any order
CreatedAtOrders(d) ==
    {o \in [1..Cardinality(DOMAIN d.rows) -> DOMAIN d.rows] :
        /\ \A i, j \in DOMAIN o : i # j => o[i] # o[j]
        /\ \A i, j \in DOMAIN o :
              i < j => d.rows[o[i]].created_at <= d.rows[o[j]].created_at}

\* the export without the tags key
export_snippets_to_json_without_tags(d, order, now) ==
    [version |-> 1, exported_at |-> now,
     snippets |-> [k \in DOMAIN order |->
                      [id |-> order[k], name |-> d.rows[order[k]].name,
                       description |-> d.rows[order[k]].description,
                       command_text |-> d.rows[order[k]].command_text,
                       last_used |-> d.rows[order[k]].last_used,
                       created_at |-> d.rows[order[k]].created_at]]]

\* backup.py export_snippets_to_json: the document json.dumps() writes, as
\* json.loads() reads it back
export_snippets_to_json(d, order, now) ==
    [version |-> 1, exported_at |-> now,
     snippets |-> [k \in DOMAIN order |-> SnippetDict(order[k], d.rows[order[k]])]]

\* the INSERT of one entry: KeyError for a missing key, IntegrityError for
\* NULL in a NOT NULL column
Insertable(snippet_data) ==
    /\ SnippetKeys \subseteq DOMAIN snippet_data
    /\ snippet_data.name # NoneText
    /\ snippet_data.command_text # NoneText

\* the entry's own id becomes the row id
ImportEntryKeepsId(d, snippet_data) ==
    LET id == IF "id" \in DOMAIN snippet_data THEN snippet_data.id ELSE d.seq + 1
    IN [rows |-> [i \in (DOMAIN d.rows) \cup {id} |->
                     IF i = id
                     THEN Snippet(snippet_data.name, snippet_data.command_text,
                                  snippet_data.description, snippet_data.tags,
                                  snippet_data.last_used, snippet_data.created_at)
                     ELSE d.rows[i]],
        seq |-> IF id > d.seq THEN id ELSE d.seq]

\* pop('id') and the INSERT without the id column
ImportEntry(d, snippet_data) ==
    insert_snippet(d, Snippet(snippet_data.name, snippet_data.command_text,
                              snippet_data.description, snippet_data.tags,
                              snippet_data.last_used, snippet_data.created_at)).db

\* the for loop of the import from entry k on.  An entry that is not an
\* object raises in pop() and again in the handler's snippet_data.get(),
\* which leaves the loop.
RECURSIVE ImportLoop(_, _, _, _)
ImportLoop(d, snippets, k, stats) ==
    IF k > Len(snippets)
    THEN [db |-> d, stats |-> stats, raised |-> FALSE]
    ELSE IF ~IsObject(snippets[k])
    THEN [db |-> d, stats |-> [stats EXCEPT !.failed = @ + 1], raised |-> TRUE]
    ELSE IF Insertable(snippets[k])
    THEN ImportLoop(ImportEntry(d, snippets[k]), snippets, k + 1,
                    [stats EXCEPT !.imported = @ + 1])
    ELSE ImportLoop(d, snippets, k + 1, [stats EXCEPT !.failed = @ + 1])

ImportFailures == {"none", "delete", "commit"}

\* the import that leaves what it has written when it fails
import_snippets_from_json_no_rollback(d, json_data, replace_existing, fail) ==
    IF json_data = BadJson
    THEN [db |-> d, stats |-> NoStats, raised |-> TRUE]
    ELSE IF "version" \notin DOMAIN json_data \/ "snippets" \notin DOMAIN json_data
    THEN [db |-> d, stats |-> NoStats, raised |-> TRUE]
    ELSE LET stats == [NoStats EXCEPT !.total = Len(json_data.snippets)]
             cleared == IF replace_existing THEN [d EXCEPT !.rows = <<>>] ELSE d
             loop == ImportLoop(cleared, json_data.snippets, 1, stats)
         IN IF replace_existing /\ fail = "delete"
            THEN [db |-> d, stats |-> stats, raised |-> TRUE]
            ELSE IF loop.raised \/ fail = "commit"
            THEN [db |-> loop.db, stats |-> loop.stats, raised |-> TRUE]
            ELSE [db |-> loop.db, stats |-> loop.stats, raised |-> FALSE]

\* backup.py import_snippets_from_json
import_snippets_from_json(d, json_data, replace_existing, fail) ==
    IF json_data = BadJson
    THEN [db |-> d, stats |-> NoStats, raised |-> TRUE]
    ELSE IF "version" \notin DOMAIN json_data \/ "snippets" \notin DOMAIN json_data
    THEN [db |-> d, stats |-> NoStats, raised |-> TRUE]
    ELSE LET stats == [NoStats EXCEPT !.total = Len(json_data.snippets)]
             cleared == IF replace_existing THEN [d EXCEPT !.rows = <<>>] ELSE d
             loop == ImportLoop(cleared, json_data.snippets, 1, stats)
         IN IF replace_existing /\ fail = "delete"
            THEN [db |-> d, stats |-> stats, raised |-> TRUE]
            ELSE IF loop.raised \/ fail = "commit"
            THEN [db |-> d, stats |-> loop.stats, raised |-> TRUE]
            ELSE [db |-> loop.db, stats |-> loop.stats, raised |-> FALSE]

\* rows the store can hold: written by the application, or imported with a
\* NULL description, tags and timestamps
StoredSnippets ==
    {Snippet(<<"a">>, <<"x">>, <<>>, <<>>, 0, 0),
     Snippet(<<"b">>, <<"y">>, NoneText, NoneText, Null, Null)}

\* entries of a document somebody wrote: a complete one, one without the
\* tags key, one with a null name, one that is no object
WrittenEntries ==
    {SnippetDict(1, Snippet(<<"a">>, <<"x">>, <<>>, <<>>, 0, 0)),
     [id |-> 2, name |-> <<"b">>, description |-> <<"d">>, command_text |-> <<"y">>,
      last_used |-> 1, created_at |-> 1],
     SnippetDict(1, Snippet(NoneText, <<"x">>, <<>>, <<>>, 0, 0)),
     NotAnObject}

WrittenLists == UNION {[1..n -> WrittenEntries] : n \in 0..MaxDocLen}

\* documents somebody wrote: no JSON, the two top-level keys present, one
\* of them missing
WrittenDocuments ==
    {BadJson}
    \cup {[version |-> 1, exported_at |-> 0, snippets |-> l] : l \in WrittenLists}
    \cup {[exported_at |-> 0, snippets |-> l] : l \in [1..1 -> WrittenEntries]}
    \cup {[version |-> 1, exported_at |-> 0]}

ImportStores ==
    {EmptyDb,
     [rows |-> [i \in {2} |-> Snippet(<<"a">>, <<"x">>, <<>>, <<>>, 0, 0)], seq |-> 2],
     [rows |-> [i \in {1, 2} |-> Snippet(<<"a">>, <<"x">>, <<>>, <<>>, 0, 0)], seq |-> 2]}

InitImport ==
    /\ clock = 0
    /\ db \in ImportStores
    /\ snaps = [i \in SnapIds |-> NoDir]
    /\ safety = [t \in Times |-> NoFile]
    /\ backups = [t \in Times |-> NoFile]
    /\ pre_restore = [t \in Seconds |-> NoFile]
    /\ pc = "idle"
    /\ call = BlankCall
    /\ events = <<>>
    /\ faults = 0
    /\ ncalls = 0
    /\ origin = [taken |-> {}, backup |-> [t \in Times |-> NoFile]]

EnterImport ==
    /\ ncalls < MaxImportCalls
    /\ ncalls' = ncalls + 1

StoreInsert ==
    \E snippet \in StoredSnippets :
        /\ db.seq < MaxImportSeq
        /\ EnterImport
        /\ LET r == insert_snippet(db, snippet)
           IN /\ db' = r.db
              /\ call' = [BlankCall EXCEPT !.op = "insert_snippet", !.pre = db,
                                           !.now = clock, !.ret = r.ret]
        /\ UNCHANGED <<clock, snaps, safety, backups, pre_restore, pc, events,
                       faults, origin>>

StoreDelete ==
    \E snippet_id \in DOMAIN db.rows :
        /\ EnterImport
        /\ db' = delete_snippet(db, snippet_id).db
        /\ call' = [BlankCall EXCEPT !.op = "delete_snippet", !.pre = db,
                                     !.now = clock, !.snippet_id = snippet_id]
        /\ UNCHANGED <<clock, snaps, safety, backups, pre_restore, pc, events,
                       faults, origin>>

\* the export dialog: export_snippets_to_json, then the text written to a file
ExportSnippets ==
    \E order \in CreatedAtOrders(db) :
        /\ EnterImport
        /\ LET json_data == export_snippets_to_json(db, order, clock)
           IN /\ backups' = [backups EXCEPT ![clock] = json_data]
              /\ call' = [BlankCall EXCEPT !.op = "export_snippets_to_json",
                                           !.pre = db, !.now = clock,
                                           !.json_data = json_data]
        /\ origin' = [origin EXCEPT !.backup[clock] = db]
        /\ UNCHANGED <<clock, db, snaps, safety, pre_restore, pc, events, faults>>

\* the import dialog: a written document or an exported file is read and
\* passed to import_snippets_from_json
ImportSnippets ==
    \E file \in {NoId} \cup {t \in Times : backups[t] # NoFile},
       replace_existing \in BOOLEAN, fail \in ImportFailures :
      \E json_data \in IF file = NoId THEN WrittenDocuments ELSE {backups[file]} :
        /\ EnterImport
        /\ Fault(fail # "none")
        /\ json_data # BadJson /\ "snippets" \in DOMAIN json_data =>
              db.seq + Len(json_data.snippets) <= MaxImportSeq
        /\ LET r == import_snippets_from_json(db, json_data, replace_existing, fail)
           IN /\ db' = r.db
              /\ call' = [BlankCall EXCEPT
                            !.op = "import_snippets_from_json", !.pre = db,
                            !.now = clock, !.snapshot_id = file,
                            !.json_data = json_data,
                            !.replace_existing = replace_existing,
                            !.stats = r.stats,
                            !.status = IF r.raised THEN "Exception" ELSE "returned",
                            !.failed = IF fail = "none" THEN {} ELSE {fail}]
        /\ UNCHANGED <<clock, snaps, safety, backups, pre_restore, pc, events, origin>>

NextImport ==
    \/ Tick
    \/ StoreInsert
    \/ StoreDelete
    \/ ExportSnippets
    \/ ImportSnippets

SpecImport == InitImport /\ [][NextImport]_vars

\* ------------------------------------------------------------------- search
\* lower case of an ASCII letter, as LIKE folds it
Lower(c) ==
    CASE c = "A" -> "a"
      [] c = "B" -> "b"
      [] OTHER -> c

\* SQLite's text LIKE pattern: % matches any run of characters, _ any one
\* character, letters match without regard to case
RECURSIVE Like(_, _)
Like(text, pattern) ==
    IF pattern = <<>> THEN text = <<>>
    ELSE IF Head(pattern) = "%"
    THEN Like(text, Tail(pattern)) \/ (text # <<>> /\ Like(Tail(text), pattern))
    ELSE /\ text # <<>>
         /\ Head(pattern) = "_" \/ Lower(Head(pattern)) = Lower(Head(text))
         /\ Like(Tail(text), Tail(pattern))

\* column LIKE '%term%'; NULL LIKE ... is not true
ColumnLike(value, term) ==
    value # NoneText /\ Like(value, <<"%">> \o term \o <<"%">>)

\* the WHERE clause search_snippets builds
Matches(row, query, tags_list) ==
    /\ strip(query) # <<>> =>
          \/ ColumnLike(row.name, strip(query))
          \/ ColumnLike(row.description, strip(query))
          \/ ColumnLike(row.command_text, strip(query))
          \/ ColumnLike(row.tags, strip(query))
    /\ (\E k \in DOMAIN tags_list : strip(tags_list[k]) # <<>>) =>
          \E k \in DOMAIN tags_list :
             strip(tags_list[k]) # <<>> /\ ColumnLike(row.tags, strip(tags_list[k]))

\* the orders ORDER BY last_used DESC can return the ids in
LastUsedOrders(d, ids) ==
    {o \in [1..Cardinality(ids) -> ids] :
        /\ \A i, j \in DOMAIN o : i # j => o[i] # o[j]
        /\ \A i, j \in DOMAIN o :
              i < j => d.rows[o[i]].last_used >= d.rows[o[j]].last_used}

\* database.py search_snippets: the ids of the rows returned, in order
search_snippets(d, query, tags_list) ==
    LastUsedOrders(d, {i \in DOMAIN d.rows : Matches(d.rows[i], query, tags_list)})

\* database.py get_all_snippets
get_all_snippets(d) == LastUsedOrders(d, DOMAIN d.rows)

SearchRows ==
    {Snippet(<<"a", "b">>, <<"b">>, <<>>, <<"A">>, 0, 0),
     Snippet(<<"a", "_">>, <<"b">>, <<"b">>, <<>>, 1, 0),
     Snippet(<<"b">>, <<"B", "b">>, <<>>, <<"b", "a">>, 1, 1)}

SearchStores ==
    UNION {{[rows |-> rows, seq |-> n] : rows \in [1..n -> SearchRows]} :
           n \in 0..MaxSearchRows}

SearchTerms == UNION {[1..n -> {"a", "A", "_", " "}] : n \in 0..MaxTermLen}

SearchTagLists ==
    UNION {[1..n -> {<<" ">>, <<"a">>, <<"b", "_">>}] : n \in 0..MaxTags}

InitSearch ==
    /\ clock = 0
    /\ db \in SearchStores
    /\ snaps = [i \in SnapIds |-> NoDir]
    /\ safety = [t \in Times |-> NoFile]
    /\ backups = [t \in Times |-> NoFile]
    /\ pre_restore = [t \in Seconds |-> NoFile]
    /\ pc = "idle"
    /\ call = BlankCall
    /\ events = <<>>
    /\ faults = 0
    /\ ncalls = 0
    /\ origin = [taken |-> {}, backup |-> [t \in Times |-> NoFile]]

SearchSnippets ==
    \E query \in SearchTerms, tags_list \in SearchTagLists :
      \E result \in search_snippets(db, query, tags_list) :
        /\ ncalls < MaxSearchCalls
        /\ ncalls' = ncalls + 1
        /\ call' = [BlankCall EXCEPT !.op = "search_snippets", !.pre = db,
                                     !.query = query, !.tags_list = tags_list,
                                     !.result = result]
        /\ UNCHANGED <<clock, db, snaps, safety, backups, pre_restore, pc, events,
                       faults, origin>>

GetAllSnippets ==
    \E result \in get_all_snippets(db) :
        /\ ncalls < MaxSearchCalls
        /\ ncalls' = ncalls + 1
        /\ call' = [BlankCall EXCEPT !.op = "get_all_snippets", !.pre = db,
                                     !.result = result]
        /\ UNCHANGED <<clock, db, snaps, safety, backups, pre_restore, pc, events,
                       faults, origin>>

NextSearch ==
    \/ SearchSnippets
    \/ GetAllSnippets

SpecSearch == InitSearch /\ [][NextSearch]_vars

\* --------------------------------------------------- backup retention alone
\* file names, cut into the pieces the pattern test looks at
BackupName(i) == <<"snippets", "_backup_", ToString(i), ".db">>
LiveName == <<"snippets", ".db">>
PreRestoreName == <<"snippets", ".db", ".pre_restore_", "0">>
SafetyName == <<"safety_before_restore_", "0", "_backup", ".db">>
NotesName == <<"notes", "_backup_", "0", ".txt">>

BackupFileNames == {BackupName(i) : i \in 1..MaxBackupFiles}
OtherFileNames == {LiveName, PreRestoreName, SafetyName, NotesName}
FileNames == BackupFileNames \cup OtherFileNames

\* '_backup_' in file and file.endswith('.db')
IsBackupFile(file) == "_backup_" \in Range(file) /\ file[Len(file)] = ".db"

NoBackupDir == [exists |-> FALSE, files |-> [f \in FileNames |-> NoFile]]

\* the orders backup_files.sort(key=mtime, reverse=True) can leave the
\* matching files in: os.listdir gives them in any order, the sort is stable
MtimeOrders(files) ==
    LET found == {f \in DOMAIN files : files[f] # NoFile /\ IsBackupFile(f)}
    IN {o \in [1..Cardinality(found) -> found] :
          /\ \A i, j \in DOMAIN o : i # j => o[i] # o[j]
          /\ \A i, j \in DOMAIN o : i < j => files[o[i]].mtime >= files[o[j]].mtime}

\* the files kept are the least recently modified ones
cleanup_old_backups_keeps_oldest(dir, keep_count, order, failing) ==
    IF ~dir.exists THEN [dir |-> dir, deleted_count |-> 0]
    ELSE LET doomed == Range(SubSeq(order, 1, Len(order) - keep_count)) \ failing
         IN [dir |-> [dir EXCEPT !.files =
                        [f \in DOMAIN dir.files |->
                            IF f \in doomed THEN NoFile ELSE dir.files[f]]],
             deleted_count |-> Cardinality(doomed)]

\* backup.py cleanup_old_backups: 0 for a missing directory; else os.remove
\* of every matching file after the first keep_count of the sorted list;
\* `failing` are the files whose os.remove raises (logged, not counted)
cleanup_old_backups(dir, keep_count, order, failing) ==
    IF ~dir.exists THEN [dir |-> dir, deleted_count |-> 0]
    ELSE LET doomed == Range(SliceFrom(order, keep_count)) \ failing
         IN [dir |-> [dir EXCEPT !.files =
                        [f \in DOMAIN dir.files |->
                            IF f \in doomed THEN NoFile ELSE dir.files[f]]],
             deleted_count |-> Cardinality(doomed)]

BackupDirs ==
    {NoBackupDir} \cup
    UNION {{[exists |-> TRUE,
             files |-> [f \in FileNames |->
                          IF f \in BackupFileNames THEN m[f]
                          ELSE IF f \in others THEN [mtime |-> 0] ELSE NoFile]] :
              m \in [BackupFileNames -> {NoFile} \cup {[mtime |-> t] : t \in 0..MaxMtime}]} :
           others \in SUBSET OtherFileNames}

InitBackupCleanup ==
    /\ clock = 0
    /\ db = EmptyDb
    /\ snaps = [i \in SnapIds |-> NoDir]
    /\ safety = [t \in Times |-> NoFile]
    /\ backups \in BackupDirs
    /\ pre_restore = [t \in Seconds |-> NoFile]
    /\ pc = "idle"
    /\ call = BlankCall
    /\ events = <<>>
    /\ faults = 0
    /\ ncalls = 0
    /\ origin = [taken |-> {}, backup |-> [t \in Times |-> NoFile]]

\* SnippetManager.cleanup_old_backups(backup_dir, keep_count)
CleanupOldBackups ==
    \E keep_count \in 0..(MaxBackupFiles + 1), order \in MtimeOrders(backups.files) :
      \E failing \in SUBSET Range(SliceFrom(order, keep_count)) :
        /\ ncalls < MaxCleanupCalls
        /\ ncalls' = ncalls + 1
        /\ Fault(failing # {})
        /\ LET r == cleanup_old_backups(backups, keep_count, order, failing)
           IN /\ backups' = r.dir
              /\ call' = [BlankCall EXCEPT
                            !.op = "cleanup_old_backups", !.pre = db,
                            !.keep_count = keep_count, !.ret = r.deleted_count,
                            !.listing = order,
                            !.failed = IF failing = {} THEN {} ELSE {"remove"}]
        /\ UNCHANGED <<clock, db, snaps, safety, pre_restore, pc, events, origin>>

NextBackupCleanup == CleanupOldBackups

SpecBackupCleanup == InitBackupCleanup /\ [][NextBackupCleanup]_vars

\* ==================================================================== claims
BracketOps == {"add_snippet", "update_snippet", "delete_snippet"}

InBracket == call.op \in BracketOps /\ call.status # "ValueError"

IsPrefix(p, q) == Len(p) <= Len(q) /\ SubSeq(q, 1, Len(p)) = p

\* C1: in every execution of add_snippet, update_snippet and delete_snippet
\* that reaches the bracket the steps run in the order BEFORE snapshot,
\* Record Store mutation, AFTER snapshot (only with a non-empty snapshot
\* id), cleanup: the live file still holds its content of the start of the
\* call until the mutation step has run, the before.db written by the call
\* holds that content, and a call that returns has run every step.
C1_BracketOrder ==
    InBracket =>
        /\ \/ IsPrefix(events, <<"before", "mutate", "after", "cleanup">>)
           \/ IsPrefix(events, <<"before", "mutate", "cleanup">>)
        /\ ("after" \in Range(events)) => call.snapshot_id # NoId
        /\ ("cleanup" \in Range(events) /\ call.snapshot_id # NoId)
                => "after" \in Range(events)
        /\ ("mutate" \notin Range(events)) => db = call.pre
        /\ (call.snapshot_id # NoId /\ snaps[call.snapshot_id] # NoDir)
                => snaps[call.snapshot_id].before = call.pre
        /\ (pc = "idle" /\ call.status = "returned") => "cleanup" \in Range(events)
        /\ (pc = "idle" /\ call.status = "Exception")
                => events = <<"before", "mutate">>

C1_Witness ==
    /\ call.op = "update_snippet"
    /\ pc = "idle"
    /\ call.status = "returned"
    /\ events = <<"before", "mutate", "after", "cleanup">>
    /\ db # call.pre

\* C2: for add_snippet, update_snippet and delete_snippet with valid inputs,
\* whichever of the BEFORE snapshot, AFTER snapshot and cleanup steps fails,
\* the call returns the result and leaves the table that the Record Store
\* mutation alone produces; only an error of the mutation itself reaches
\* the caller.
C2_SnapshotFailuresSwallowed ==
    (InBracket /\ pc = "idle") =>
        IF "mutate" \in call.failed
        THEN call.status = "Exception"
        ELSE /\ call.status = "returned"
             /\ db = Mutation(call.pre, call).db
             /\ call.ret = Mutation(call.pre, call).ret

C2_Witness ==
    /\ InBracket
    /\ pc = "idle"
    /\ call.status = "returned"
    /\ call.failed = {"before", "cleanup"}
    /\ db # call.pre

IsCompleted(d) == d # NoDir /\ d.meta # NoFile /\ d.meta.status = "completed"

\* C3: once a snapshot's status is completed it never becomes in-progress
\* again and its before.db is never rewritten; the only later change to a
\* completed snapshot is the removal of the whole directory.
C3_CompletedIsTerminal ==
    [][\A i \in SnapIds :
         IsCompleted(snaps[i]) =>
            \/ snaps'[i] = NoDir
            \/ /\ IsCompleted(snaps'[i])
               /\ snaps'[i].before = snaps[i].before
               /\ snaps'[i] = snaps[i]]_vars

\* C4: before(), a mutation, then after() with the id that before()
\* returned leave a directory with before.db holding the live database of
\* the before() call, after.db holding the live database of the after()
\* call, and metadata with that snapshot_id, the operation, status completed
\* and both time stamps set.
C4_BeforeMutateAfter ==
    (InBracket /\ "after" \in Range(events) /\ "after" \notin call.failed) =>
        LET d == snaps[call.snapshot_id]
        IN /\ pc = "cleanup" => d # NoDir
           /\ d # NoDir =>
                /\ d.before # NoFile /\ d.before = call.pre
                /\ d.after # NoFile /\ d.after = db
                /\ d.meta # NoFile
                /\ d.meta.snapshot_id = call.snapshot_id
                /\ d.meta.operation = SnapshotOperation(call.op)
                /\ d.meta.status = "completed"
                /\ d.meta.before_timestamp # Null
                /\ d.meta.after_timestamp # Null

C4_Witness ==
    /\ call.op = "update_snippet"
    /\ pc = "cleanup"
    /\ "after" \in Range(events)
    /\ call.failed = {}
    /\ snaps[call.snapshot_id].before # snaps[call.snapshot_id].after

\* C5: with n snapshot directories and keep_count >= 0, cleanup_old_snapshots
\* returns max(0, n - keep_count) and leaves min(n, keep_count) directories,
\* those with the greatest ids, untouched; the others are gone as a whole.
\* Seven directories and keep_count 5 leave the five newest and return 2.
C5_CleanupKeepsNewest ==
    call.op = "cleanup_old_snapshots" =>
        LET n == Len(call.listing)
            k == call.keep_count
            before_ids == Range(call.listing)
            kept == listdir(snaps)
        IN /\ call.ret = IF n > k THEN n - k ELSE 0
           /\ Cardinality(kept) = IF n < k THEN n ELSE k
           /\ kept \subseteq before_ids
           /\ \A i \in kept, j \in before_ids \ kept : i > j
           /\ \A i \in kept : snaps[i] = SnapshotDirAt(i)

C5_Witness ==
    /\ call.op = "cleanup_old_snapshots"
    /\ Len(call.listing) = 7
    /\ call.keep_count = KEEP_COUNT
    /\ call.ret = 2
    /\ listdir(snaps) = 3..7

\* C6: for any snapshot taken around a mutation (before, mutate, after)
\* and still on disk, restore_from_snapshot(id, use_before=True) returns
\* True and makes the live database what it was when the before() of that
\* bracket was called, and with use_before=False what it was when the
\* after() of that bracket was called.
C6_RestoreRoundTrip ==
    (/\ call.op = "restore_from_snapshot"
     /\ call.failed = {}
     /\ snaps[call.snapshot_id] # NoDir) =>
        \A b \in origin.taken :
            b.snapshot_id = call.snapshot_id =>
                /\ call.ret = 1
                /\ db = IF call.use_before THEN b.before ELSE b.after

\* C7: restore_from_snapshot overwrites the live database only after the
\* safety copy of its content has been written; when the safety copy fails
\* the live database is left alone and the call returns False; after every
\* successful restore the safety file of that call holds what the live
\* database held just before it.
C7_SafetyCopyFirst ==
    call.op = "restore_from_snapshot" =>
        /\ call.ret = 1 => safety[MicroStamp(call.now)] = call.pre
        /\ db # call.pre => safety[MicroStamp(call.now)] = call.pre
        /\ "safety" \in call.failed => (call.ret = 0 /\ db = call.pre)

C7_Witness ==
    /\ call.op = "restore_from_snapshot"
    /\ call.ret = 1
    /\ db # call.pre
    /\ safety[MicroStamp(call.now)] = call.pre

ChosenFileAbsent(S, snapshot_id, use_before) ==
    \/ S[snapshot_id] = NoDir
    \/ (IF use_before THEN S[snapshot_id].before ELSE S[snapshot_id].after) = NoFile

\* C8: restore_from_snapshot returns False, writes no safety copy and
\* leaves the live database as it is whenever the snapshot directory does
\* not exist or the chosen file is absent (use_before=False on a snapshot
\* that has no after.db yet, an id that cleanup has removed).
C8_RestoreMissingFails ==
    [][(/\ ncalls' # ncalls
        /\ call'.op = "restore_from_snapshot"
        /\ ChosenFileAbsent(snaps, call'.snapshot_id, call'.use_before)) =>
            /\ call'.ret = 0
            /\ call'.status = "returned"
            /\ db' = db
            /\ safety' = safety
            /\ snaps' = snaps]_vars

C8_Witness ==
    /\ call.op = "restore_from_snapshot"
    /\ ~call.use_before
    /\ call.failed = {}
    /\ call.ret = 0
    /\ snaps[call.snapshot_id] # NoDir
    /\ snaps[call.snapshot_id].meta # NoFile
    /\ snaps[call.snapshot_id].meta.status = "in-progress"
    /\ snaps[call.snapshot_id].after = NoFile
    /\ safety = [t \in Times |-> NoFile]

\* C9: whenever a file exists at db_path, restore_database writes the
\* pre_restore safety copy of its content before it overwrites db_path,
\* with keep_backup True and False alike; when the safety copy cannot be
\* written the live file is not overwritten; the content the live database
\* had just before the most recent restore is held by a pre_restore file.
C9_PreRestoreCopy ==
    (call.op = "restore_database" /\ call.pre # NoFile) =>
        /\ call.status = "returned" => pre_restore[SecondStamp(call.now)] = call.pre
        /\ db # call.pre => \E t \in Seconds : pre_restore[t] = call.pre
        /\ ("safety" \in call.failed) => (call.status = "Exception" /\ db = call.pre)

C9_Witness ==
    /\ call.op = "restore_database"
    /\ call.status = "returned"
    /\ ~call.keep_backup
    /\ call.pre # NoFile
    /\ db # call.pre
    /\ pre_restore[SecondStamp(call.now)] = call.pre

\* C10: restore_database(backup, db, keep_backup) makes the live database
\* what it was when backup_database wrote the backup, whatever records were
\* changed since; with keep_backup=True the backup file is still there with
\* the same content, with keep_backup=False it is gone.
C10_BackupRoundTrip ==
    (call.op = "restore_database" /\ call.status = "returned") =>
        /\ db = origin.backup[call.snapshot_id]
        /\ call.keep_backup => backups[call.snapshot_id] = origin.backup[call.snapshot_id]
        /\ ~call.keep_backup => backups[call.snapshot_id] = NoFile

C10_Witness ==
    /\ call.op = "restore_database"
    /\ call.status = "returned"
    /\ call.keep_backup
    /\ call.pre # NoFile
    /\ 1 \in DOMAIN db.rows
    /\ 1 \notin DOMAIN call.pre.rows
    /\ backups[call.snapshot_id] = db

\* C11: backup_database on a database file that does not exist fails with
\* an error and writes no backup file; restore_database from a backup file
\* that does not exist fails with an error, writes no pre_restore copy and
\* leaves the live database file as it is.
C11_MissingFileFails ==
    [][/\ (/\ ncalls' # ncalls
           /\ call'.op = "backup_database"
           /\ db = NoFile) =>
               /\ call'.status = "Exception"
               /\ backups' = backups
               /\ db' = db
       /\ (/\ ncalls' # ncalls
           /\ call'.op = "restore_database"
           /\ backups[call'.snapshot_id] = NoFile) =>
               /\ call'.status = "Exception"
               /\ pre_restore' = pre_restore
               /\ db' = db
               /\ backups' = backups]_vars

C11_Witness ==
    /\ call.op = "restore_database"
    /\ call.status = "Exception"
    /\ call.failed = {}
    /\ call.pre # NoFile
    /\ 1 \in DOMAIN call.pre.rows
    /\ db = call.pre
    /\ backups[call.snapshot_id] = NoFile
    /\ pre_restore = [t \in Seconds |-> NoFile]

\* the database the migration step starts from
MigrationStart == IF call.pre = NoFile THEN NewSchemaDb ELSE call.pre

\* C12: when migration step 1 fails at any point, every partial change of
\* the step is rolled back: the snippets table and its rows are as before,
\* no auxiliary table made by the step remains, current_version is still 0,
\* and the error reaches the caller.
C12_FailedStepRolledBack ==
    (call.op = "create_tables" /\ call.failed # {}) =>
        /\ call.status = "Exception" =>
            /\ db.unique = MigrationStart.unique
            /\ db.rows = MigrationStart.rows
            /\ db.seq = MigrationStart.seq
            /\ get_current_version(db) = get_current_version(MigrationStart)
            /\ db.table_backups = MigrationStart.table_backups
            /\ db.snippets_new = MigrationStart.snippets_new
        /\ call.status = "returned" => get_current_version(MigrationStart) >= 1

\* C13: ensure_latest_version run a second time right after a successful
\* run leaves current_version, the version log, the schema of the snippets
\* table and all rows unchanged, rebuilds nothing and makes no table backup.
C13_SecondRunChangesNothing ==
    [][(/\ call.op = "create_tables"
        /\ call.status = "returned"
        /\ ncalls' # ncalls
        /\ call'.op = "create_tables") =>
            /\ call'.status = "returned"
            /\ db' = db]_vars

C13_Witness ==
    /\ call.op = "create_tables"
    /\ call.status = "returned"
    /\ ncalls = 2
    /\ call.pre = db
    /\ ~db.unique
    /\ db.log = {[version |-> 1, description |-> RemovedUnique]}
    /\ \E t \in Seconds : db.table_backups[t] # NoTable
    /\ DOMAIN db.rows # {}

\* C14: after a successful ensure_latest_version on a database at version
\* 0, current_version is 1 with exactly one log row for version 1; a
\* snippets table that had UNIQUE on name has been rebuilt without it and
\* holds the same rows, ids and fields; a table without it is not rebuilt
\* and only the version row is added.
C14_VersionOneRecorded ==
    (/\ call.op = "create_tables"
     /\ call.status = "returned"
     /\ get_current_version(MigrationStart) = 0) =>
        /\ get_current_version(db) = 1
        /\ Cardinality({r \in db.log : r.version = 1}) = 1
        /\ ~db.unique
        /\ db.rows = MigrationStart.rows
        /\ db.snippets_new = MigrationStart.snippets_new
        /\ IF MigrationStart.unique
           THEN db.table_backups[SecondStamp(call.now)] = [rows |-> MigrationStart.rows]
           ELSE /\ db.table_backups = MigrationStart.table_backups
                /\ db.seq = MigrationStart.seq

C14_Witness ==
    /\ call.op = "create_tables"
    /\ call.status = "returned"
    /\ call.pre # NoFile
    /\ call.pre.unique
    /\ call.pre.log = {}
    /\ DOMAIN call.pre.rows = {2}
    /\ db.rows = call.pre.rows
    /\ ~db.unique
    /\ get_current_version(db) = 1

\* the multiset of the rows of a table, ids left out
RowBag(rows) ==
    [s \in {rows[i] : i \in DOMAIN rows} |->
        Cardinality({i \in DOMAIN rows : rows[i] = s})]

IsImport == call.op = "import_snippets_from_json"

\* the ids the store held when the import inserted its rows
PresentAtImport == IF call.replace_existing THEN {} ELSE DOMAIN call.pre.rows

\* C15: a document exported from a store R and imported with
\* replace_existing=True gives a store with the same multiset of (name,
\* description, command_text, tags, last_used, created_at) as R, stats
\* imported = total = |R| and failed = 0, with ids taken from the target
\* store's counter, not from the document.
C15_ExportImportRoundTrip ==
    (/\ IsImport
     /\ call.snapshot_id # NoId
     /\ call.replace_existing
     /\ call.failed = {}) =>
        LET R == origin.backup[call.snapshot_id].rows
            n == Cardinality(DOMAIN R)
        IN /\ call.status = "returned"
           /\ RowBag(db.rows) = RowBag(R)
           /\ call.stats.imported = n
           /\ call.stats.total = n
           /\ call.stats.failed = 0
           /\ DOMAIN db.rows = (call.pre.seq + 1)..(call.pre.seq + n)

C15_Witness ==
    /\ IsImport
    /\ call.status = "returned"
    /\ call.snapshot_id # NoId
    /\ call.replace_existing
    /\ DOMAIN call.pre.rows = {}
    /\ DOMAIN origin.backup[call.snapshot_id].rows # {}
    /\ DOMAIN db.rows # DOMAIN origin.backup[call.snapshot_id].rows
    /\ RowBag(db.rows) = RowBag(origin.backup[call.snapshot_id].rows)

\* C16: an import whose document has both top-level keys and a snippets
\* list mixing good entries with bad ones (a missing field, a null required
\* value, an entry that is no object) does not abort: the good entries are
\* inserted and committed, imported counts the good entries, failed the bad
\* ones, and total = imported + skipped + failed.
C16_BadEntriesCounted ==
    (/\ IsImport
     /\ call.failed = {}
     /\ call.json_data # BadJson
     /\ {"version", "snippets"} \subseteq DOMAIN call.json_data) =>
        LET snippets == call.json_data.snippets
            good == {k \in DOMAIN snippets :
                        IsObject(snippets[k]) /\ Insertable(snippets[k])}
        IN /\ call.status = "returned"
           /\ call.stats.imported = Cardinality(good)
           /\ call.stats.failed = Len(snippets) - Cardinality(good)
           /\ call.stats.total =
                 call.stats.imported + call.stats.skipped + call.stats.failed
           /\ Cardinality(DOMAIN db.rows) =
                 Cardinality(PresentAtImport) + Cardinality(good)

\* C17: an import that fails as a whole leaves the store as it was before
\* the call: nothing it inserted persists, and with replace_existing=True
\* the records that were there are not lost.
C17_FailedImportChangesNothing ==
    (IsImport /\ call.status = "Exception") => db = call.pre

C17_Witness ==
    /\ IsImport
    /\ call.status = "Exception"
    /\ call.failed = {}
    /\ call.replace_existing
    /\ DOMAIN call.pre.rows # {}
    /\ call.json_data # BadJson
    /\ {"version", "snippets"} \subseteq DOMAIN call.json_data
    /\ Len(call.json_data.snippets) = 2
    /\ IsObject(call.json_data.snippets[1])
    /\ Insertable(call.json_data.snippets[1])
    /\ ~IsObject(call.json_data.snippets[2])
    /\ db = call.pre

\* C18: an import gives every record it inserts a new id: the id of the
\* document entry is ignored, the new ids differ from every id present in
\* the store at that moment and from one another, and with
\* replace_existing=False every record that was there is still there with
\* the same id and fields.
C18_ImportAssignsNewIds ==
    (IsImport /\ call.status = "returned") =>
        LET new == (DOMAIN db.rows) \ PresentAtImport
        IN /\ Cardinality(new) = call.stats.imported
           /\ new = (call.pre.seq + 1)..(call.pre.seq + call.stats.imported)
           /\ ~call.replace_existing =>
                 \A i \in DOMAIN call.pre.rows :
                    i \in DOMAIN db.rows /\ db.rows[i] = call.pre.rows[i]

C18_Witness ==
    /\ IsImport
    /\ call.status = "returned"
    /\ ~call.replace_existing
    /\ 1 \in DOMAIN call.pre.rows
    /\ Len(call.json_data.snippets) >= 1
    /\ "id" \in DOMAIN call.json_data.snippets[1]
    /\ call.json_data.snippets[1].id = 1
    /\ call.stats.imported >= 1
    /\ db.rows[1] = call.pre.rows[1]
    /\ call.pre.seq + 1 \in DOMAIN db.rows

\* a text that is empty or holds whitespace only
IsBlank(s) == \A i \in DOMAIN s : IsSpace(s[i])

\* the text has no whitespace at either end
IsTrimmed(s) == s = <<>> \/ (~IsSpace(s[1]) /\ ~IsSpace(s[Len(s)]))

\* the step is the start of a call of the named operation
Begins(op) == ncalls' # ncalls /\ call'.op = op

\* C19: add_snippet with a name some record already has passes validation
\* when allow_duplicate_names is True and the record it inserts gets an id
\* no record had; with allow_duplicate_names False it fails with a
\* validation error exactly when some record has the trimmed name, and then
\* no record is inserted and no snapshot is made.
C19_DuplicateNames ==
    [][/\ (Begins("add_snippet") /\ ~IsBlank(call'.name) /\ ~IsBlank(call'.command_text)) =>
             LET taken == \E i \in DOMAIN db.rows : db.rows[i].name = call'.snippet_name
             IN /\ call'.allow_duplicate_names => call'.status = "running"
                /\ ~call'.allow_duplicate_names =>
                      (call'.status = "ValueError" <=> taken)
                /\ call'.status = "ValueError" =>
                      /\ pc' = "idle"
                      /\ db' = db
                      /\ snaps' = snaps
       /\ (call.op = "add_snippet" /\ pc = "mutate" /\ db' # db) =>
             /\ call'.ret \notin DOMAIN db.rows
             /\ DOMAIN db'.rows = (DOMAIN db.rows) \cup {call'.ret}
             /\ db'.rows[call'.ret] = call.snippet
             /\ \A i \in DOMAIN db.rows : db'.rows[i] = db.rows[i]]_vars

C19_Witness ==
    /\ call.op = "add_snippet"
    /\ call.status = "returned"
    /\ call.allow_duplicate_names
    /\ \E i \in DOMAIN call.pre.rows : call.pre.rows[i].name = call.snippet_name
    /\ call.ret \in DOMAIN db.rows
    /\ \E i \in DOMAIN db.rows :
          i # call.ret /\ db.rows[i].name = db.rows[call.ret].name

\* C20: add_snippet and update_snippet with an empty or whitespace-only
\* name or command_text raise a validation error before any snapshot and
\* leave the store unchanged; every record these operations write has a
\* non-empty name and command_text without surrounding whitespace.
C20_BlankRejected ==
    [][/\ ((Begins("add_snippet") \/ Begins("update_snippet"))
             /\ (IsBlank(call'.name) \/ IsBlank(call'.command_text))) =>
                /\ call'.status = "ValueError"
                /\ pc' = "idle"
                /\ db' = db
                /\ snaps' = snaps
       /\ (call.op \in {"add_snippet", "update_snippet"} /\ pc = "mutate") =>
             \A i \in DOMAIN db'.rows :
                (i \notin DOMAIN db.rows \/ db'.rows[i] # db.rows[i]) =>
                    /\ db'.rows[i].name # <<>>
                    /\ db'.rows[i].command_text # <<>>
                    /\ IsTrimmed(db'.rows[i].name)
                    /\ IsTrimmed(db'.rows[i].command_text)]_vars

C20_Witness ==
    /\ call.op = "update_snippet"
    /\ call.status = "ValueError"
    /\ ~IsBlank(call.name)
    /\ IsBlank(call.command_text)
    /\ has_snippet(call.pre, call.snippet_id)
    /\ db = call.pre
    /\ pc = "idle"

\* C21: update_snippet on an id that has no record fails with a ValueError
\* (not found), creates no record and no snapshot, leaves the store
\* unchanged and never reports success.
C21_UpdateMissingFails ==
    [][/\ (Begins("update_snippet") /\ call'.snippet_id \notin DOMAIN db.rows) =>
             /\ call'.status = "ValueError"
             /\ pc' = "idle"
             /\ db' = db
             /\ snaps' = snaps
       /\ (call'.op = "update_snippet" /\ call'.status = "returned") =>
             call'.snippet_id \in DOMAIN call'.pre.rows]_vars

C21_Witness ==
    /\ call.op = "update_snippet"
    /\ call.status = "ValueError"
    /\ ~IsBlank(call.name)
    /\ ~IsBlank(call.command_text)
    /\ DOMAIN call.pre.rows # {}
    /\ call.snippet_id \notin DOMAIN call.pre.rows
    /\ db = call.pre
    /\ pc = "idle"

\* C22: delete_snippet of an id that has no record returns True without
\* raising and leaves the records as they were; delete_snippet of an
\* existing id removes that record and no other.
C22_DeleteMissingSucceeds ==
    (/\ call.op = "delete_snippet"
     /\ pc = "idle"
     /\ "mutate" \notin call.failed) =>
        /\ call.status = "returned"
        /\ call.ret = 1
        /\ DOMAIN db.rows = (DOMAIN call.pre.rows) \ {call.snippet_id}
        /\ \A i \in DOMAIN db.rows : db.rows[i] = call.pre.rows[i]

C22_Witness ==
    /\ call.op = "delete_snippet"
    /\ pc = "idle"
    /\ call.status = "returned"
    /\ call.ret = 1
    /\ DOMAIN call.pre.rows # {}
    /\ call.snippet_id \notin DOMAIN call.pre.rows
    /\ db = call.pre

\* term occurs in text as a substring, letters compared without regard to case
ContainsIgnoringCase(text, term) ==
    \E k \in 0..(Len(text) - Len(term)) :
       \A j \in 1..Len(term) : Lower(text[k + j]) = Lower(term[j])

\* C23: search_snippets(term, tagList) returns exactly the records for
\* which (term is blank, or term is a case-insensitive substring of name,
\* description, command_text or tags) and (tagList has no non-blank tag, or
\* some tag of it is a substring of tags), ordered by last_used descending;
\* with a blank term and an empty tagList that is every record.
C23_SearchExact ==
    call.op = "search_snippets" =>
        LET term == strip(call.query)
            tags == {strip(call.tags_list[k]) : k \in DOMAIN call.tags_list} \ {<<>>}
            wanted == {i \in DOMAIN db.rows :
                         /\ \/ term = <<>>
                            \/ ContainsIgnoringCase(db.rows[i].name, term)
                            \/ ContainsIgnoringCase(db.rows[i].description, term)
                            \/ ContainsIgnoringCase(db.rows[i].command_text, term)
                            \/ ContainsIgnoringCase(db.rows[i].tags, term)
                         /\ \/ tags = {}
                            \/ \E t \in tags : ContainsIgnoringCase(db.rows[i].tags, t)}
        IN /\ Range(call.result) = wanted
           /\ Len(call.result) = Cardinality(wanted)
           /\ \A i, j \in DOMAIN call.result :
                 i < j => db.rows[call.result[i]].last_used
                             >= db.rows[call.result[j]].last_used
           /\ (term = <<>> /\ call.tags_list = <<>>) => call.result \in get_all_snippets(db)

\* the fields of record i other than those named are the same before and
\* after the step
SameExcept(i, changed) ==
    /\ "name" \notin changed => db'.rows[i].name = db.rows[i].name
    /\ "description" \notin changed => db'.rows[i].description = db.rows[i].description
    /\ "command_text" \notin changed => db'.rows[i].command_text = db.rows[i].command_text
    /\ "tags" \notin changed => db'.rows[i].tags = db.rows[i].tags
    /\ "last_used" \notin changed => db'.rows[i].last_used = db.rows[i].last_used
    /\ "created_at" \notin changed => db'.rows[i].created_at = db.rows[i].created_at

C25_BackupCleanup ==
    [][(Begins("cleanup_old_backups") /\ call'.failed = {}) =>
          LET matching == {f \in FileNames :
                              /\ backups.files[f] # NoFile
                              /\ "_backup_" \in Range(f)
                              /\ f[Len(f)] = ".db"}
              n == Cardinality(matching)
              deleted == {f \in FileNames :
                             backups.files[f] # NoFile /\ backups'.files[f] = NoFile}
              surplus == IF n > call'.keep_count THEN n - call'.keep_count ELSE 0
          IN IF ~backups.exists
             THEN call'.ret = 0 /\ backups' = backups
             ELSE /\ call'.ret = surplus
                  /\ Cardinality(deleted) = surplus
                  /\ deleted \subseteq matching
                  /\ LiveName \notin deleted
                  /\ PreRestoreName \notin deleted
                  /\ \A d \in deleted, k \in matching \ deleted :
                        backups.files[d].mtime <= backups.files[k].mtime
                  /\ \A f \in FileNames \ deleted :
                        backups'.files[f] = backups.files[f]]_vars

C25_Witness ==
    /\ call.op = "cleanup_old_backups"
    /\ call.failed = {}
    /\ call.keep_count = 1
    /\ call.ret = 2
    /\ Len(call.listing) = 3
    /\ backups.files[call.listing[1]] # NoFile
    /\ backups.files[call.listing[2]] = NoFile
    /\ backups.files[call.listing[3]] = NoFile
    /\ backups.files[LiveName] # NoFile
    /\ backups.files[PreRestoreName] # NoFile
    /\ backups.files[SafetyName] # NoFile
    /\ backups.files[NotesName] # NoFile

\* the text without the whitespace at its ends
Trimmed(s) == RStrip(LStrip(s))

\* C26: for a non-blank name and command_text and any description and
\* tags, add_snippet returns a positive id that no record had, and
\* get_snippet_by_id on it right afterwards returns a record whose name,
\* description, command_text and tags are the trimmed inputs and whose
\* last_used and created_at are present.
C26_AddThenGet ==
    (/\ call.op = "add_snippet"
     /\ pc = "idle"
     /\ ~IsBlank(call.name)
     /\ ~IsBlank(call.command_text)
     /\ call.allow_duplicate_names
     /\ "mutate" \notin call.failed) =>
        /\ call.status = "returned"
        /\ call.ret >= 1
        /\ call.ret \notin DOMAIN call.pre.rows
        /\ call.ret \in DOMAIN db.rows
        /\ LET r == db.rows[call.ret]
           IN /\ r.name = Trimmed(call.name)
              /\ r.description = Trimmed(call.description)
              /\ r.command_text = Trimmed(call.command_text)
              /\ r.tags = Trimmed(call.tags)
              /\ r.last_used # Null
              /\ r.created_at # Null

C26_Witness ==
    /\ call.op = "add_snippet"
    /\ pc = "idle"
    /\ call.status = "returned"
    /\ call.name = <<" ", "a">>
    /\ call.command_text = <<"x", " ">>
    /\ call.tags = <<"t", " ">>
    /\ call.ret = 2
    /\ db.rows[2].name = <<"a">>
    /\ db.rows[2].command_text = <<"x">>
    /\ db.rows[2].tags = <<"t">>
    /\ db.rows[2].description = <<>>

\* C27: when the Record Store call inside an add, update or delete bracket
\* raises, no AFTER snapshot is taken and no cleanup runs for that call; the
\* snapshot made by the BEFORE step keeps status in-progress, a null
\* after_timestamp and no after.db; the store is as before the call and the
\* error reaches the caller.
C27_FailedMutationLeavesBefore ==
    (/\ call.op \in BracketOps
     /\ pc = "idle"
     /\ "mutate" \in call.failed) =>
        /\ call.status = "Exception"
        /\ db = call.pre
        /\ "after" \notin Range(events)
        /\ "cleanup" \notin Range(events)
        /\ call.snapshot_id # NoId =>
              /\ snaps[call.snapshot_id] # NoDir
              /\ snaps[call.snapshot_id].meta.status = "in-progress"
              /\ snaps[call.snapshot_id].meta.after_timestamp = Null
              /\ snaps[call.snapshot_id].after = NoFile

\* C28: every snapshot directory whose metadata can be read has status
\* in-progress or completed; in-progress goes with a null after_timestamp;
\* completed goes with an after_timestamp and with before.db and after.db
\* present; before.db and before_timestamp are present in either status and
\* the snapshot_id of the metadata is the name of the directory.
C28_MetadataConsistent ==
    \A i \in DOMAIN snaps :
       (snaps[i] # NoDir /\ snaps[i].meta # NoFile) =>
          /\ snaps[i].meta.status \in {"in-progress", "completed"}
          /\ snaps[i].meta.status = "in-progress" =>
                snaps[i].meta.after_timestamp = Null
          /\ snaps[i].meta.status = "completed" =>
                /\ snaps[i].meta.after_timestamp # Null
                /\ snaps[i].after # NoFile
          /\ snaps[i].before # NoFile
          /\ snaps[i].meta.before_timestamp # Null
          /\ snaps[i].meta.snapshot_id = i

C28_Witness ==
    \E i, j \in DOMAIN snaps :
       /\ snaps[i] # NoDir
       /\ snaps[i].meta # NoFile
       /\ snaps[i].meta.status = "completed"
       /\ snaps[i].after # NoFile
       /\ snaps[j] # NoDir
       /\ snaps[j].meta # NoFile
       /\ snaps[j].meta.status = "in-progress"
       /\ snaps[j].after # NoFile

\* C29: every successful create_snapshot_before takes a snapshot id that no
\* existing snapshot directory has, so it never overwrites the before.db or
\* the metadata of an existing snapshot and no two brackets share a
\* directory.
C29_FreshSnapshotId ==
    [][(pc = "before" /\ call'.snapshot_id # NoId) =>
          /\ snaps[call'.snapshot_id] = NoDir
          /\ \A i \in DOMAIN snaps : snaps[i] # NoDir => snaps'[i] = snaps[i]]_vars

\* C30: when add_snippet / update_snippet / delete_snippet returns and the
\* snapshot steps of the call succeeded, at most KEEP_COUNT snapshot
\* directories exist and the snapshot the call created is one of them, with
\* status completed: the cleanup at the end of the bracket never removes the
\* snapshot of the bracket that ran it.
C30_OwnSnapshotKept ==
    (/\ pc = "idle"
     /\ call.op \in {"add_snippet", "update_snippet", "delete_snippet"}
     /\ call.status = "returned"
     /\ call.failed = {}) =>
        /\ Cardinality(listdir(snaps)) <= KEEP_COUNT
        /\ call.snapshot_id \in listdir(snaps)
        /\ snaps[call.snapshot_id].meta # NoFile
        /\ snaps[call.snapshot_id].meta.status = "completed"

====
